---- MODULE Spec2Model ----
(***************************************************************************)
(* Model of the financial-statement analysis engine (FinancialAnalyzer)    *)
(* and of the risk assessment engine (RiskAssessment).                     *)
(*                                                                         *)
(* A line-item value is a record [t, n, d]:                                *)
(*   t = "num"  : the number n/d (d > 0; statement line items have d = 1)  *)
(*   t = "none" : Python None (a null line item or a null ratio)           *)
(*   t = "str"  : a non-numeric value such as the string "N/A"             *)
(* A missing key is a key outside the DOMAIN of the period's mapping.      *)
(* Period labels are the integers 1..3; their order is the lexicographic   *)
(* order of the labels they stand for ("2022" < "2023" < "2024").          *)
(* A dict is a sequence of entries in insertion order.                     *)
(***************************************************************************)
EXTENDS Integers, Sequences, FiniteSets, TLC

VARIABLES financial_data,    \* the StatementSet handed to the analyzer
          edits,             \* number of changes made to the sample input
          op,                \* the operation that was called ("none" before)
          arg,               \* argument of a call that does not read financial_data
          ret,               \* value returned by the call
          raised,            \* TRUE when the call ended with an exception
          analysis_results,  \* instance field FinancialAnalyzer.analysis_results
          benchmarking,      \* instance field FinancialAnalyzer.benchmarking
          risk_patterns,     \* instance field RiskAssessment.risk_patterns
          severity_indicators, \* instance field RiskAssessment.severity_indicators
          risks,             \* the caller's list of risk factors (mutable dicts)
          risk_categories,   \* instance field RiskAssessment.risk_categories
          risk_scores,       \* instance field RiskAssessment.risk_scores
          risk_summary,      \* instance field RiskAssessment.risk_summary
          filing_text,       \* the filing handed to extract_risk_factors
          self_risk_factors, \* instance field RiskAssessment.risk_factors
          calls              \* the calls in progress of callers sharing one instance

engine == <<risk_patterns, severity_indicators, risks, risk_categories, risk_scores, risk_summary,
           filing_text, self_risk_factors, calls>>
vars == <<financial_data, edits, op, arg, ret, raised, analysis_results, benchmarking, engine>>

----------------------------------------------------------------------------
(* Bounds *)
MaxEdits == 1
MaxLen == 3
MaxWords == 2
MaxRisks == 6
MaxMixed == 3
MaxLines == 4

----------------------------------------------------------------------------
(* Values and Python arithmetic *)

Num(x) == [t |-> "num", n |-> x, d |-> 1]
None == [t |-> "none", n |-> 0, d |-> 1]
Str == [t |-> "str", n |-> 0, d |-> 1]
Rat(a, b) == IF b < 0 THEN [t |-> "num", n |-> 0 - a, d |-> 0 - b]
                      ELSE [t |-> "num", n |-> a, d |-> b]

IsNum(v) == v.t = "num"
IsNone(v) == v.t = "none"
Abs(x) == IF x < 0 THEN 0 - x ELSE x

\* Python "v != 0": None and strings are different from 0
Ne0(v) == IF IsNum(v) THEN v.n # 0 ELSE TRUE

\* "a - b" raises TypeError unless both operands are numbers
CanSub(a, b) == IsNum(a) /\ IsNum(b)
Sub(a, b) == Num(a.n - b.n)

\* "a + b": numbers add, two strings concatenate, anything else raises
CanAdd(a, b) == (IsNum(a) /\ IsNum(b)) \/ (a.t = "str" /\ b.t = "str")
Add(a, b) == IF IsNum(a) THEN Num(a.n + b.n) ELSE Str

\* "a / b" with b != 0 already tested: raises TypeError unless both are numbers
CanDiv(a, b) == IsNum(a) /\ IsNum(b)
Div(a, b) == Rat(a.n, b.n)

\* r >= a/b, r > a/b, r <= a/b for a number r and b > 0
GE(r, a, b) == r.n * b >= a * r.d
GT(r, a, b) == r.n * b > a * r.d
LE(r, a, b) == r.n * b <= a * r.d

\* dict.get(key, 0)
Get(data, key) == IF key \in DOMAIN data THEN data[key] ELSE Num(0)

\* position of a period in a statement (0 when the statement has no such period)
RECURSIVE IndexOf(_, _, _)
IndexOf(stmt, p, i) ==
  IF i > Len(stmt) THEN 0
  ELSE IF stmt[i].period = p THEN i ELSE IndexOf(stmt, p, i + 1)

HasPeriod(stmt, p) == IndexOf(stmt, p, 1) # 0
PeriodData(stmt, p) == stmt[IndexOf(stmt, p, 1)].data

----------------------------------------------------------------------------
(* One try-block: the statements run in order, an exception ends the block  *)
(* and keeps what was stored before it.                                     *)

Emit(name, p, v) == [raise |-> FALSE, out |-> <<[name |-> name, period |-> p, val |-> v]>>]
Pass == [raise |-> FALSE, out |-> <<>>]
Raise == [raise |-> TRUE, out |-> <<>>]

\* "if denom != 0: ratios[key] = numer / denom  else: ratios[key] = None"
RatioStep(name, p, numer, denom) ==
  IF Ne0(denom)
    THEN IF CanDiv(numer, denom) THEN Emit(name, p, Div(numer, denom)) ELSE Raise
    ELSE Emit(name, p, None)

RECURSIVE TryBlock(_, _)
TryBlock(steps, i) ==
  IF i > Len(steps) THEN <<>>
  ELSE IF steps[i].raise THEN <<>>
  ELSE steps[i].out \o TryBlock(steps, i + 1)

RECURSIVE BlockRaises(_, _)
BlockRaises(steps, i) ==
  IF i > Len(steps) THEN FALSE
  ELSE steps[i].raise \/ BlockRaises(steps, i + 1)

----------------------------------------------------------------------------
(* Ratio Calculator *)

liquidity_period(p, data) ==
  LET current_assets == Get(data, "total_current_assets")
      current_liabilities == Get(data, "total_current_liabilities")
      cash == Get(data, "cash_and_cash_equivalents")
      marketable_securities == Get(data, "marketable_securities")
      inventory == Get(data, "inventory")
      quick_ok == CanSub(current_assets, inventory)
      quick_assets == IF quick_ok THEN Sub(current_assets, inventory) ELSE None
      cash_ok == CanAdd(cash, marketable_securities)
      cash_and_equivalents == IF cash_ok THEN Add(cash, marketable_securities) ELSE None
  IN << RatioStep("current_ratio", p, current_assets, current_liabilities),
        IF quick_ok THEN Pass ELSE Raise,
        RatioStep("quick_ratio", p, quick_assets, current_liabilities),
        IF cash_ok THEN Pass ELSE Raise,
        RatioStep("cash_ratio", p, cash_and_equivalents, current_liabilities) >>

RECURSIVE Concat(_, _)
Concat(ss, i) == IF i > Len(ss) THEN <<>> ELSE ss[i] \o Concat(ss, i + 1)

calculate_liquidity_ratios(balance_sheet) ==
  Concat([i \in 1..Len(balance_sheet) |->
            TryBlock(liquidity_period(balance_sheet[i].period, balance_sheet[i].data), 1)], 1)

\* "if balance_sheet and period in balance_sheet: x = balance_sheet[period].get(item, 0)"
JoinedStep(name, p, numer, balance_sheet, item) ==
  IF HasPeriod(balance_sheet, p)
    THEN RatioStep(name, p, numer, Get(PeriodData(balance_sheet, p), item))
    ELSE Pass

profitability_period(p, data, balance_sheet) ==
  LET revenue == Get(data, "revenue")
      cost_of_goods_sold == Get(data, "cost_of_goods_sold")
      \* the default argument "revenue - cost_of_goods_sold" is evaluated
      \* whether or not gross_profit is present
      default_ok == CanSub(revenue, cost_of_goods_sold)
      gross_profit == IF "gross_profit" \in DOMAIN data THEN data["gross_profit"]
                      ELSE IF default_ok THEN Sub(revenue, cost_of_goods_sold) ELSE None
      operating_income == Get(data, "operating_income")
      net_income == Get(data, "net_income")
  IN << IF default_ok THEN Pass ELSE Raise,
        RatioStep("gross_margin", p, gross_profit, revenue),
        RatioStep("operating_margin", p, operating_income, revenue),
        RatioStep("net_margin", p, net_income, revenue),
        JoinedStep("roa", p, net_income, balance_sheet, "total_assets"),
        JoinedStep("roe", p, net_income, balance_sheet, "total_equity") >>

calculate_profitability_ratios(income_statement, balance_sheet) ==
  Concat([i \in 1..Len(income_statement) |->
            TryBlock(profitability_period(income_statement[i].period,
                                          income_statement[i].data, balance_sheet), 1)], 1)

efficiency_period(p, data, balance_sheet) ==
  LET revenue == Get(data, "revenue")
      cost_of_goods_sold == Get(data, "cost_of_goods_sold")
  IN << JoinedStep("asset_turnover", p, revenue, balance_sheet, "total_assets"),
        JoinedStep("inventory_turnover", p, cost_of_goods_sold, balance_sheet, "inventory"),
        JoinedStep("receivables_turnover", p, revenue, balance_sheet, "accounts_receivable") >>

calculate_efficiency_ratios(fd) ==
  Concat([i \in 1..Len(fd.income_statement) |->
            TryBlock(efficiency_period(fd.income_statement[i].period,
                                       fd.income_statement[i].data, fd.balance_sheet), 1)], 1)

leverage_period(p, data, balance_sheet) ==
  LET total_debt == IF HasPeriod(balance_sheet, p)
                      THEN Get(PeriodData(balance_sheet, p), "total_liabilities")
                      ELSE None
      operating_income == Get(data, "operating_income")
      interest_expense == Get(data, "interest_expense")
  IN << JoinedStep("debt_to_equity", p, total_debt, balance_sheet, "total_equity"),
        JoinedStep("debt_to_assets", p, total_debt, balance_sheet, "total_assets"),
        RatioStep("interest_coverage", p, operating_income, interest_expense) >>

calculate_leverage_ratios(fd) ==
  Concat([i \in 1..Len(fd.income_statement) |->
            TryBlock(leverage_period(fd.income_statement[i].period,
                                     fd.income_statement[i].data, fd.balance_sheet), 1)], 1)

_calculate_financial_ratios(fd) ==
  [liquidity |-> calculate_liquidity_ratios(fd.balance_sheet),
   profitability |-> calculate_profitability_ratios(fd.income_statement, fd.balance_sheet),
   efficiency |-> calculate_efficiency_ratios(fd),
   leverage |-> calculate_leverage_ratios(fd)]

----------------------------------------------------------------------------
(* Trend/Growth Engine *)

\* "float(value) if value is not None else 0.0"; float("N/A") raises ValueError
FloatRaises(v) == v.t = "str"
ToFloat(v) == IF IsNum(v) THEN v.n ELSE 0

StmtKeys(stmt) == UNION {DOMAIN stmt[i].data : i \in 1..Len(stmt)}

SeriesOf(stmt, key) ==
  LET has == SelectSeq(stmt, LAMBDA e : key \in DOMAIN e.data)
  IN [i \in 1..Len(has) |-> ToFloat(has[i].data[key])]

StmtFloatRaises(stmt) ==
  \E i \in 1..Len(stmt) : \E k \in DOMAIN stmt[i].data : FloatRaises(stmt[i].data[k])

\* metric keys are <<"", key>> for the income statement and <<"balance_", key>>
\* for the balance sheet
_extract_time_series(fd) ==
  [raise |-> StmtFloatRaises(fd.income_statement) \/ StmtFloatRaises(fd.balance_sheet),
   series |-> [m \in ({""} \X StmtKeys(fd.income_statement))
                       \cup ({"balance_"} \X StmtKeys(fd.balance_sheet)) |->
                 IF m[1] = "" THEN SeriesOf(fd.income_statement, m[2])
                              ELSE SeriesOf(fd.balance_sheet, m[2])]]

percentage_change(values) ==
  IF values[1] = 0 THEN Num(0)
  ELSE Rat((values[Len(values)] - values[1]) * 100, Abs(values[1]))

\* variant: the boundary +5% already counts as strong_up
trend_direction_inclusive(pct_change) ==
  IF GE(pct_change, 5, 1) THEN "strong_up"
  ELSE IF GT(pct_change, 1, 1) THEN "moderate_up"
  ELSE IF GT(pct_change, 0 - 1, 1) THEN "stable"
  ELSE IF GT(pct_change, 0 - 5, 1) THEN "moderate_down"
  ELSE "strong_down"

trend_direction(pct_change) ==
  IF GT(pct_change, 5, 1) THEN "strong_up"
  ELSE IF GT(pct_change, 1, 1) THEN "moderate_up"
  ELSE IF GT(pct_change, 0 - 1, 1) THEN "stable"
  ELSE IF GT(pct_change, 0 - 5, 1) THEN "moderate_down"
  ELSE "strong_down"

\* variant: only the empty series is reported as insufficient
_analyze_trend_single(values) ==
  IF Len(values) < 1
    THEN [direction |-> "insufficient_data", strength |-> 0]
    ELSE [direction |-> trend_direction(percentage_change(values)),
          percentage_change |-> percentage_change(values),
          values |-> values]

\* slope and correlation (numpy.polyfit / numpy.corrcoef) are outside the model
_analyze_trend(values) ==
  IF Len(values) < 2
    THEN [direction |-> "insufficient_data", strength |-> 0]
    ELSE [direction |-> trend_direction(percentage_change(values)),
          percentage_change |-> percentage_change(values),
          values |-> values]

_identify_trends(fd) ==
  LET ts == _extract_time_series(fd)
      metrics == {m \in DOMAIN ts.series : Len(ts.series[m]) >= 2}
  IN [raise |-> ts.raise,
      trends |-> [m \in metrics |-> _analyze_trend(ts.series[m])]]

GrowthMetrics == {"revenue", "net_income", "total_assets", "total_equity"}

\* "x = stmt[p][metric]" guarded by "metric in stmt.get(p, {})"
Lookup(stmt, p, metric, otherwise) ==
  IF HasPeriod(stmt, p) /\ metric \in DOMAIN PeriodData(stmt, p)
    THEN PeriodData(stmt, p)[metric]
    ELSE otherwise

MetricValue(metric, p, income_statement, balance_sheet) ==
  LET v == Lookup(income_statement, p, metric, None)
  IN IF IsNone(v) THEN Lookup(balance_sheet, p, metric, v) ELSE v

\* variant: growth between the two earliest periods
_calculate_metric_growth_earliest(metric, periods, income_statement, balance_sheet) ==
  LET cur == periods[2]
      prev == periods[1]
      current_value == MetricValue(metric, cur, income_statement, balance_sheet)
      previous_value == MetricValue(metric, prev, income_statement, balance_sheet)
  IN IF ~IsNone(current_value) /\ ~IsNone(previous_value) /\ Ne0(previous_value)
       THEN IF CanSub(current_value, previous_value)
              THEN {[period |-> <<prev, cur>>,
                     growth_rate |-> Rat((current_value.n - previous_value.n) * 100,
                                         Abs(previous_value.n)),
                     current_value |-> current_value,
                     previous_value |-> previous_value]}
              ELSE {}
       ELSE {}

\* the result is a set holding the record, or the empty set for "return None"
_calculate_metric_growth(metric, periods, income_statement, balance_sheet) ==
  LET cur == periods[Len(periods)]
      prev == periods[Len(periods) - 1]
      current_value == MetricValue(metric, cur, income_statement, balance_sheet)
      previous_value == MetricValue(metric, prev, income_statement, balance_sheet)
  IN IF ~IsNone(current_value) /\ ~IsNone(previous_value) /\ Ne0(previous_value)
       THEN IF CanSub(current_value, previous_value)
              THEN {[period |-> <<prev, cur>>,
                     growth_rate |-> Rat((current_value.n - previous_value.n) * 100,
                                         Abs(previous_value.n)),
                     current_value |-> current_value,
                     previous_value |-> previous_value]}
              ELSE {}
       ELSE {}

PeriodLabels(stmt) == [i \in 1..Len(stmt) |-> stmt[i].period]

_calculate_growth_rates(fd) ==
  LET periods == SortSeq(PeriodLabels(fd.income_statement), <)
      G(metric) == _calculate_metric_growth(metric, periods,
                                            fd.income_statement, fd.balance_sheet)
  IN IF Len(periods) < 2 THEN <<>>
     ELSE [m \in {x \in GrowthMetrics : G(x) # {}} |-> CHOOSE r \in G(m) : TRUE]

----------------------------------------------------------------------------
(* Health Scorer *)

\* "[v for k, v in ratios.items() if ratio_name in k]", then the last one
_get_latest_ratio(ratios, ratio_name) ==
  LET latest_values == SelectSeq(ratios, LAMBDA e : e.name = ratio_name)
  IN IF Len(latest_values) > 0 THEN latest_values[Len(latest_values)].val ELSE None

\* variant: a marginal pass earns the full 25 points
SubCheck_full(v, good, acceptable, issue) ==
  IF IsNone(v) THEN [max |-> 0, score2 |-> 0, issues |-> <<>>]
  ELSE IF good \/ acceptable THEN [max |-> 25, score2 |-> 50, issues |-> <<>>]
  ELSE [max |-> 25, score2 |-> 0, issues |-> <<[issue |-> issue, value |-> v]>>]

\* one sub-check: max is in points, score2 in half points (25.0 -> 50, 12.5 -> 25)
SubCheck(v, good, acceptable, issue) ==
  IF IsNone(v) THEN [max |-> 0, score2 |-> 0, issues |-> <<>>]
  ELSE IF good THEN [max |-> 25, score2 |-> 50, issues |-> <<>>]
  ELSE IF acceptable THEN [max |-> 25, score2 |-> 25, issues |-> <<>>]
  ELSE [max |-> 25, score2 |-> 0, issues |-> <<[issue |-> issue, value |-> v]>>]

\* variant: Good starts at 50
health_level_shifted(final_score) ==
  IF GE(final_score, 80, 1) THEN "Excellent"
  ELSE IF GE(final_score, 50, 1) THEN "Good"
  ELSE IF GE(final_score, 40, 1) THEN "Fair"
  ELSE "Poor"

health_level(final_score) ==
  IF GE(final_score, 80, 1) THEN "Excellent"
  ELSE IF GE(final_score, 60, 1) THEN "Good"
  ELSE IF GE(final_score, 40, 1) THEN "Fair"
  ELSE "Poor"

\* variant: the half points are not converted back to points
final_score_of_unscaled(score2, max_score) ==
  IF max_score > 0 THEN Rat(score2 * 100, max_score) ELSE Num(0)

final_score_of(score2, max_score) ==
  IF max_score > 0 THEN Rat(score2 * 100, 2 * max_score) ELSE Num(0)

_assess_financial_health(ratios) ==
  LET current_ratio == _get_latest_ratio(ratios.liquidity, "current_ratio")
      net_margin == _get_latest_ratio(ratios.profitability, "net_margin")
      debt_to_equity == _get_latest_ratio(ratios.leverage, "debt_to_equity")
      asset_turnover == _get_latest_ratio(ratios.efficiency, "asset_turnover")
      c1 == SubCheck(current_ratio, GE(current_ratio, 3, 2), GE(current_ratio, 1, 1),
                     "Low current ratio")
      c2 == SubCheck(net_margin, GE(net_margin, 1, 10), GE(net_margin, 1, 20),
                     "Low net margin")
      c3 == SubCheck(debt_to_equity, LE(debt_to_equity, 1, 1), LE(debt_to_equity, 2, 1),
                     "High debt-to-equity ratio")
      c4 == SubCheck(asset_turnover, GE(asset_turnover, 1, 2), GE(asset_turnover, 1, 4),
                     "Low asset turnover")
      score2 == c1.score2 + c2.score2 + c3.score2 + c4.score2
      max_score == c1.max + c2.max + c3.max + c4.max
      final_score == final_score_of(score2, max_score)
  IN [score |-> final_score,
      level |-> health_level(final_score),
      issues |-> c1.issues \o c2.issues \o c3.issues \o c4.issues,
      max_score |-> Num(max_score),
      current_score |-> Rat(score2, 2)]

----------------------------------------------------------------------------
(* Benchmarker *)

RLess(a, b) == a.n * b.d < b.n * a.d

\* the variant that reads every ratio as "higher is better"
_assess_performance_higher(company_value, industry_value, ratio_name) ==
  IF RLess(industry_value, company_value) THEN "Above" ELSE "Below"

_assess_performance(company_value, industry_value, ratio_name) ==
  IF ratio_name \in {"current_ratio", "quick_ratio", "cash_ratio"}
    THEN IF RLess(industry_value, company_value) THEN "Above" ELSE "Below"
  ELSE IF ratio_name \in {"gross_margin", "net_margin", "roe", "roa"}
    THEN IF RLess(industry_value, company_value) THEN "Above" ELSE "Below"
  ELSE IF ratio_name \in {"debt_to_equity", "debt_to_assets"}
    THEN IF RLess(company_value, industry_value) THEN "Above" ELSE "Below"
  ELSE IF RLess(industry_value, company_value) THEN "Above" ELSE "Below"

\* company_ratios is a sequence of [name, val], industry_benchmarks a function
\* from names to numbers; "company_value - industry_value" raises on None
benchmark_ratios(company_ratios, industry_benchmarks) ==
  LET hit == SelectSeq(company_ratios, LAMBDA e : e.name \in DOMAIN industry_benchmarks)
      Row(e) ==
        LET industry_value == industry_benchmarks[e.name]
            difference == Rat(e.val.n * industry_value.d - industry_value.n * e.val.d,
                              e.val.d * industry_value.d)
        IN [name |-> e.name,
            company_value |-> e.val,
            industry_value |-> industry_value,
            difference |-> difference,
            percentage_difference |->
              IF Ne0(industry_value)
                THEN Rat(difference.n * industry_value.d * 100, difference.d * industry_value.n)
                ELSE Num(0),
            performance |-> _assess_performance(e.val, industry_value, e.name)]
  IN IF \E i \in 1..Len(hit) : ~CanSub(hit[i].val, industry_benchmarks[hit[i].name])
       THEN [raise |-> TRUE, benchmarking |-> <<>>]
       ELSE [raise |-> FALSE, benchmarking |-> [i \in 1..Len(hit) |-> Row(hit[i])]]

----------------------------------------------------------------------------
(* analyze_financial_statements: ratios, trends, growth rates, health.      *)
(* The only step that can raise is the float() conversion of the series.    *)

analyze_financial_statements(fd) ==
  LET ratios == _calculate_financial_ratios(fd)
      trends == _identify_trends(fd)
  IN [raise |-> trends.raise,
      analysis |-> [ratios |-> ratios,
                    trends |-> trends.trends,
                    growth_rates |-> _calculate_growth_rates(fd),
                    financial_health |-> _assess_financial_health(ratios)]]

----------------------------------------------------------------------------
(* Risk Assessment Engine (RiskAssessment)                                  *)
(*                                                                          *)
(* A text is a sequence of phrases; the string it stands for is the phrases *)
(* joined by single blanks, and the phrase "\n" is a line break.  A dict is *)
(* a sequence of entries in insertion order; a risk factor is a function    *)
(* from the keys it has to their values.  Scores are exact fractions.       *)

\* a list whose elements are computed once, when it is built
List(s) == s \o <<>>

\* str.lower() on a phrase
lower(p) == IF p = "Unlikely" THEN "unlikely" ELSE p

\* the places (first character, end) at which a lower-case phrase contains
\* one of the literal parts of the patterns and keyword lists
Occ(f, s, e) == [frag |-> f, s |-> s, e |-> e]
Occurrences(p) ==
  CASE p = "competition" -> {Occ("competition", 0, 11)}
    [] p = "antitrust" -> {Occ("antitrust", 0, 9)}
    [] p = "cybersecurity" -> {Occ("cyber", 0, 5), Occ("security", 5, 13)}
    [] p = "liquidity risk" -> {Occ("liquidity", 0, 9), Occ("risk", 10, 14)}
    [] p = "materially adverse" -> {Occ("material", 0, 8), Occ("materially", 0, 10), Occ("adverse", 11, 18)}
    [] p = "critical dependence" -> {Occ("critical", 0, 8), Occ("dependence", 9, 19)}
    [] p = "may impact" -> {Occ("may", 0, 3), Occ("impact", 4, 10)}
    [] p = "minor impact" -> {Occ("minor", 0, 5), Occ("in", 1, 3), Occ("impact", 6, 12)}
    [] p = "expected fluctuation" -> {Occ("expected", 0, 8), Occ("fluctuation", 9, 20)}
    [] p = "unlikely" -> {Occ("unlikely", 0, 8), Occ("likely", 2, 8)}
    [] p = "remote" -> {Occ("remote", 0, 6)}
    [] p = "significant" -> {Occ("significant", 0, 11)}
    [] p = "price competition, talent competition, product competition, global competition" ->
         {Occ("price", 0, 5), Occ("competition", 6, 17), Occ("talent", 19, 25),
          Occ("competition", 26, 37), Occ("competition", 47, 58), Occ("competition", 67, 78)}
    [] OTHER -> {}

\* "." does not match a line break: a pattern is matched within one line
RECURSIVE SplitLines(_)
SplitLines(text) ==
  IF text = <<>> THEN << <<>> >>
  ELSE LET rest == SplitLines(Tail(text))
       IN IF Head(text) = "\n" THEN << <<>> >> \o rest
          ELSE << <<Head(text)>> \o rest[1] >> \o Tail(rest)

\* text.lower(), kept with its lines and with the set of the parts that
\* occur in it
text_lower(text) ==
  LET phrases == List([i \in 1..Len(text) |-> lower(text[i])])
  IN [phrases |-> phrases,
      lines |-> SplitLines(phrases),
      parts |-> UNION {{o.frag : o \in Occurrences(phrases[i])} : i \in 1..Len(phrases)}]

\* "word in text_lower": the words have no blank, so the word lies in a phrase
Contains(lowered, word) == word \in lowered.parts

\* a pattern can only be found in a text in which each of its parts occurs
Possible(pattern, lowered) ==
  \A k \in 1..Len(pattern) : pattern[k] \cap lowered.parts # {}

\* a pattern "a.*b.*c" is the sequence of its literal parts, each a set of
\* alternatives; parts k.. are found in this order, without overlap, from
\* character off of phrase tok on
RECURSIVE MatchFrom(_, _, _, _, _)
MatchFrom(line, pattern, k, tok, off) ==
  IF k > Len(pattern) THEN TRUE
  ELSE \E i \in tok..Len(line) : \E o \in Occurrences(line[i]) :
         /\ o.frag \in pattern[k]
         /\ (i > tok \/ o.s >= off)
         /\ MatchFrom(line, pattern, k + 1, i, o.e)

re_search(pattern, lowered) ==
  /\ Possible(pattern, lowered)
  /\ \E j \in 1..Len(lowered.lines) : MatchFrom(lowered.lines[j], pattern, 1, 1, 0)

RECURSIVE SumSeq(_)
SumSeq(s) == IF s = <<>> THEN 0 ELSE Head(s) + SumSeq(Tail(s))

\* len(re.findall(pattern, text)): a one-part pattern matches at each of its
\* occurrences; with ".*" the first match of a line runs to the last
\* occurrence of the last part, so a line holds one match at most
findall_count(pattern, lowered) ==
  LET InLine(line) ==
        IF Len(pattern) = 1
          THEN SumSeq([i \in 1..Len(line) |->
                        Cardinality({o \in Occurrences(line[i]) : o.frag \in pattern[1]})])
          ELSE IF MatchFrom(line, pattern, 1, 1, 0) THEN 1 ELSE 0
  IN IF Possible(pattern, lowered)
       THEN SumSeq([j \in 1..Len(lowered.lines) |-> InLine(lowered.lines[j])])
       ELSE 0

\* self.risk_patterns as __init__ builds it ("conditions?" is the part
\* "condition" with an optional "s")
RiskPatterns ==
  <<
     [category |-> "market_risks",
      patterns |->
       << <<{"economic"}, {"condition"}>>,
          <<{"market"}, {"demand"}>>,
          <<{"competition"}>>,
          <<{"customer"}, {"concentration"}>>,
          <<{"pricing"}, {"pressure"}>>,
          <<{"supply"}, {"chain"}>>,
          <<{"commodity"}, {"price"}>>,
          <<{"foreign"}, {"exchange"}>>,
          <<{"interest"}, {"rate"}>> >>],
     [category |-> "operational_risks",
      patterns |->
       << <<{"operational"}, {"efficiency"}>>,
          <<{"technology"}, {"disruption"}>>,
          <<{"cyber"}, {"security"}>>,
          <<{"data"}, {"breach"}>>,
          <<{"system"}, {"failure"}>>,
          <<{"vendor"}, {"reliance"}>>,
          <<{"intellectual"}, {"property"}>>,
          <<{"talent"}, {"acquisition"}>>,
          <<{"workforce"}, {"issues"}>> >>],
     [category |-> "financial_risks",
      patterns |->
       << <<{"liquidity"}, {"risk"}>>,
          <<{"credit"}, {"risk"}>>,
          <<{"debt"}, {"obligation"}>>,
          <<{"capital"}, {"requirement"}>>,
          <<{"financial"}, {"covenant"}>>,
          <<{"rating"}, {"agency"}>>,
          <<{"cost"}, {"structure"}>>,
          <<{"cash"}, {"flow"}, {"risk"}>> >>],
     [category |-> "regulatory_risks",
      patterns |->
       << <<{"regulatory"}, {"change"}>>,
          <<{"legal"}, {"proceeding"}>>,
          <<{"compliance"}, {"cost"}>>,
          <<{"environmental"}, {"regulation"}>>,
          <<{"tax"}, {"policy"}>>,
          <<{"trade"}, {"policy"}>>,
          <<{"antitrust"}>>,
          <<{"data"}, {"privacy"}>> >>] >>

\* self.severity_indicators as __init__ builds it
SeverityIndicators ==
  <<
     [severity |-> "high",
      patterns |->
       << <<{"materially", "significantly", "substantially"}, {"adverse"}>>,
          <<{"could"}, {"result"}, {"in"}, {"significant"}>>,
          <<{"may"}, {"have"}, {"material"}, {"impact"}>>,
          <<{"substantial"}, {"risk"}>>,
          <<{"critical"}, {"dependence"}>> >>],
     [severity |-> "medium",
      patterns |->
       << <<{"could"}, {"negatively"}, {"affect"}>>,
          <<{"may"}, {"impact"}>>,
          <<{"potential"}, {"risk"}>>,
          <<{"challenges"}, {"faced"}>>,
          <<{"uncertainties"}, {"exist"}>> >>],
     [severity |-> "low",
      patterns |->
       << <<{"minor"}, {"impact"}>>,
          <<{"routine"}, {"matter"}>>,
          <<{"standard"}, {"practice"}>>,
          <<{"expected"}, {"fluctuation"}>> >>] >>

\* exact fractions in lowest terms (a >= 0, b > 0)
RECURSIVE Gcd(_, _)
Gcd(a, b) == IF b = 0 THEN a ELSE Gcd(b, a % b)
Frac(a, b) == LET g == Gcd(a, b) IN Rat(a \div g, b \div g)
Times(x, y) == Frac(x.n * y.n, x.d * y.d)
Plus(x, y) == Frac(x.n * y.d + y.n * x.d, x.d * y.d)

\* min(x, y) of two numbers: y when y < x, else x
Smaller(x, y) == IF RLess(y, x) THEN y ELSE x

\* the float "not a number": every comparison with it is false
NaN == [t |-> "nan", n |-> 0, d |-> 1]

\* dict.get(key, default) on a risk factor, and the store risk[key] = value
risk_get(risk, key, default) == IF key \in DOMAIN risk THEN risk[key] ELSE default
Put(risk, key, value) ==
  [k \in DOMAIN risk \cup {key} |-> IF k = key THEN value ELSE risk[k]]

\* the category_scores dict of _classify_risk_category: 0.5 for every match
category_match_scores(category_patterns, text) ==
  LET lowered == text_lower(text)
  IN List([i \in 1..Len(category_patterns) |->
             [category |-> category_patterns[i].category,
              score |-> Frac(SumSeq([j \in 1..Len(category_patterns[i].patterns) |->
                                       findall_count(category_patterns[i].patterns[j], lowered)]),
                             2)]])

\* the variant that keeps the last of the keys with the greatest score
max_key_last(category_scores) ==
  LET i == CHOOSE i \in 1..Len(category_scores) :
             /\ \A j \in 1..Len(category_scores) :
                  ~RLess(category_scores[i].score, category_scores[j].score)
             /\ \A j \in (i + 1)..Len(category_scores) :
                  RLess(category_scores[j].score, category_scores[i].score)
  IN category_scores[i].category

\* max(category_scores, key=category_scores.get): the first key, in insertion
\* order, whose score no other key exceeds
max_key(category_scores) ==
  LET i == CHOOSE i \in 1..Len(category_scores) :
             /\ \A j \in 1..Len(category_scores) :
                  ~RLess(category_scores[i].score, category_scores[j].score)
             /\ \A j \in 1..(i - 1) :
                  RLess(category_scores[j].score, category_scores[i].score)
  IN category_scores[i].category

_classify_risk_category(category_patterns, text) ==
  LET category_scores == category_match_scores(category_patterns, text)
  IN IF Len(category_scores) > 0 THEN max_key(category_scores) ELSE "general"

\* the variant without the cap at 1.0
_calculate_category_confidence_uncapped(category_patterns, text, category) ==
  LET hit == SelectSeq(category_patterns, LAMBDA e : e.category = category)
      patterns == IF hit = <<>> THEN <<>> ELSE hit[1].patterns
      lowered == text_lower(text)
      total_matches == SumSeq([j \in 1..Len(patterns) |-> findall_count(patterns[j], lowered)])
  IN Frac(total_matches * 2, 10)

_calculate_category_confidence(category_patterns, text, category) ==
  LET hit == SelectSeq(category_patterns, LAMBDA e : e.category = category)
      patterns == IF hit = <<>> THEN <<>> ELSE hit[1].patterns
      lowered == text_lower(text)
      total_matches == SumSeq([j \in 1..Len(patterns) |-> findall_count(patterns[j], lowered)])
  IN Smaller(Frac(total_matches * 2, 10), Frac(1, 1))

\* the first bucket, in the order given, one of whose patterns is found
RECURSIVE FirstBucket(_, _, _)
FirstBucket(indicators, text, i) ==
  IF i > Len(indicators) THEN "medium"
  ELSE IF \E j \in 1..Len(indicators[i].patterns) :
            re_search(indicators[i].patterns[j], text)
         THEN indicators[i].severity
         ELSE FirstBucket(indicators, text, i + 1)

\* the variant that looks at the buckets in the opposite order
_assess_risk_severity_level_reversed(indicators, text) ==
  FirstBucket([i \in 1..Len(indicators) |->
                 indicators[Len(indicators) + 1 - i]],
              text_lower(text), 1)

_assess_risk_severity_level(indicators, text) ==
  FirstBucket(indicators, text_lower(text), 1)

ContainsAny(lowered, words) == \E w \in words : Contains(lowered, w)

\* the variant that looks for the lowering keywords first
_calculate_impact_score_lowering_first(text, severity) ==
  LET text_lowered == text_lower(text)
      base_score == CASE severity = "low" -> Frac(1, 1)
                      [] severity = "medium" -> Frac(3, 1)
                      [] severity = "high" -> Frac(5, 1)
                      [] OTHER -> Frac(3, 1)
      adjusted == IF ContainsAny(text_lowered, {"minor", "routine", "standard"})
                    THEN Times(base_score, Frac(7, 10))
                  ELSE IF ContainsAny(text_lowered, {"material", "significant", "substantial"})
                    THEN Times(base_score, Frac(15, 10))
                  ELSE base_score
  IN Smaller(adjusted, Frac(5, 1))

_calculate_impact_score(text, severity) ==
  LET text_lowered == text_lower(text)
      base_score == CASE severity = "low" -> Frac(1, 1)
                      [] severity = "medium" -> Frac(3, 1)
                      [] severity = "high" -> Frac(5, 1)
                      [] OTHER -> Frac(3, 1)
      adjusted == IF ContainsAny(text_lowered, {"material", "significant", "substantial"})
                    THEN Times(base_score, Frac(15, 10))
                  ELSE IF ContainsAny(text_lowered, {"minor", "routine", "standard"})
                    THEN Times(base_score, Frac(7, 10))
                  ELSE base_score
  IN Smaller(adjusted, Frac(5, 1))

_assess_likelihood(text) ==
  LET text_lowered == text_lower(text)
  IN IF ContainsAny(text_lowered, {"will", "expected", "likely", "probable"}) THEN Frac(8, 10)
     ELSE IF ContainsAny(text_lowered, {"may", "could", "possible", "potential"}) THEN Frac(5, 10)
     ELSE IF ContainsAny(text_lowered, {"unlikely", "remote", "minimal"}) THEN Frac(2, 10)
     ELSE Frac(5, 10)

\* a reference to a risk factor is its position in the caller's list: the
\* grouped and sorted lists of the results hold the caller's objects
Positions(risk_factors) == [i \in 1..Len(risk_factors) |-> i]

\* the keys of a dict filled in list order, each at its first use
KeysInOrder(key_list) ==
  LET keys == List(key_list)
      first == SelectSeq([i \in 1..Len(keys) |-> i],
                         LAMBDA i : \A j \in 1..(i - 1) : keys[j] # keys[i])
  IN [k \in 1..Len(first) |-> keys[first[k]]]

classify_risks(category_patterns, risk_factors) ==
  LET classified == List(
        [i \in 1..Len(risk_factors) |->
           LET text == risk_get(risk_factors[i], "text", <<>>)
               category == _classify_risk_category(category_patterns, text)
           IN Put(Put(risk_factors[i], "category", category), "category_confidence",
                  _calculate_category_confidence(category_patterns, text, category))])
      categories == KeysInOrder([i \in 1..Len(classified) |-> classified[i]["category"]])
  IN [risk_factors |-> classified,
      risk_categories |->
        [k \in 1..Len(categories) |->
           [category |-> categories[k],
            risks |-> SelectSeq(Positions(classified),
                                LAMBDA i : classified[i]["category"] = categories[k])]]]

\* np.mean: the mean of an empty list is nan (numpy warns and returns it)
RECURSIVE Total(_)
Total(scores) == IF scores = <<>> THEN Frac(0, 1) ELSE Plus(Head(scores), Total(Tail(scores)))
np_mean(score_list) ==
  LET scores == List(score_list)
      total == Total(scores)
  IN IF scores = <<>> THEN NaN ELSE Frac(total.n, total.d * Len(scores))

\* the variant that takes the first score of the list
MaxOf_first(scores) == scores[1]

\* max(scores) of a non-empty list
MaxOf(scores) ==
  scores[CHOOSE i \in 1..Len(scores) : \A j \in 1..Len(scores) : ~RLess(scores[i], scores[j])]

_get_severity_distribution(risk_list) ==
  LET severities == List([i \in 1..Len(risk_list) |->
                            risk_get(risk_list[i], "severity", "medium")])
      keys == KeysInOrder(severities)
  IN [k \in 1..Len(keys) |->
        [severity |-> keys[k],
         count |-> Cardinality({i \in 1..Len(risk_list) : severities[i] = keys[k]})]]

_calculate_risk_distribution(risk_factors) ==
  LET severities == List([i \in 1..Len(risk_factors) |->
                            risk_get(risk_factors[i], "severity", "medium")])
      keys == KeysInOrder(severities)
  IN [k \in 1..Len(keys) |->
        [severity |-> keys[k],
         count |-> Cardinality({i \in 1..Len(risk_factors) : severities[i] = keys[k]})]]

\* the variant that counts the severities of the risks grouped under a key
_calculate_category_scores_defaulting(risk_factors) ==
  LET category_of == List([i \in 1..Len(risk_factors) |->
                             risk_get(risk_factors[i], "category", "general")])
      score_of == List([i \in 1..Len(risk_factors) |->
                          risk_get(risk_factors[i], "overall_risk_score", Frac(0, 1))])
      keys == KeysInOrder(category_of)
      Scores(category) ==
        LET at == SelectSeq(Positions(risk_factors), LAMBDA i : category_of[i] = category)
        IN List([k \in 1..Len(at) |-> score_of[at[k]]])
  IN [k \in 1..Len(keys) |->
        [category |-> keys[k],
         average_score |-> np_mean(Scores(keys[k])),
         max_score |-> MaxOf(Scores(keys[k])),
         risk_count |-> Len(Scores(keys[k])),
         severity_distribution |->
           _get_severity_distribution(
             SelectSeq(risk_factors,
                       LAMBDA r : risk_get(r, "category", "general") = keys[k]))]]

\* risk.get('category') without a default is None for an unclassified risk,
\* and None is no category name
_calculate_category_scores(risk_factors) ==
  LET category_of == List([i \in 1..Len(risk_factors) |->
                             risk_get(risk_factors[i], "category", "general")])
      score_of == List([i \in 1..Len(risk_factors) |->
                          risk_get(risk_factors[i], "overall_risk_score", Frac(0, 1))])
      keys == KeysInOrder(category_of)
      Scores(category) ==
        LET at == SelectSeq(Positions(risk_factors), LAMBDA i : category_of[i] = category)
        IN List([k \in 1..Len(at) |-> score_of[at[k]]])
  IN [k \in 1..Len(keys) |->
        [category |-> keys[k],
         average_score |-> np_mean(Scores(keys[k])),
         max_score |-> MaxOf(Scores(keys[k])),
         risk_count |-> Len(Scores(keys[k])),
         severity_distribution |->
           _get_severity_distribution(
             SelectSeq(risk_factors,
                       LAMBDA r : risk_get(r, "category", "None") = keys[k]))]]

top_n == 5

\* sorted(..., key, reverse=True): position i comes before position j when its
\* key is greater, or equal and i is the earlier one (the later one when
\* stable is FALSE)
SortedBy(key, stable) ==
  LET Earlier(i, j) == IF stable THEN i < j ELSE i > j
      Before(i, j) == RLess(key[j], key[i]) \/ (~RLess(key[i], key[j]) /\ Earlier(i, j))
      Rank(i) == 1 + Cardinality({j \in 1..Len(key) : j # i /\ Before(j, i)})
  IN [k \in 1..Len(key) |-> CHOOSE i \in 1..Len(key) : Rank(i) = k]

\* the variant that sorts ascending and reverses the result
_identify_top_risks_reversed(risk_factors) ==
  LET key == List([i \in 1..Len(risk_factors) |->
                     risk_get(risk_factors[i], "overall_risk_score", Frac(0, 1))])
      sorted_risks == SortedBy(key, FALSE)
  IN SubSeq(sorted_risks, 1, IF Len(sorted_risks) < top_n THEN Len(sorted_risks) ELSE top_n)

\* Python's sort is stable, with reverse=True too: equal keys keep list order
_identify_top_risks(risk_factors) ==
  LET key == List([i \in 1..Len(risk_factors) |->
                     risk_get(risk_factors[i], "overall_risk_score", Frac(0, 1))])
      sorted_risks == SortedBy(key, TRUE)
  IN SubSeq(sorted_risks, 1, IF Len(sorted_risks) < top_n THEN Len(sorted_risks) ELSE top_n)

\* the variant that stores the sum of impact and likelihood
risk_score_sum(impact_score, likelihood) == Plus(impact_score, likelihood)

\* risk['overall_risk_score'] = impact_score * likelihood
risk_score(impact_score, likelihood) == Times(impact_score, likelihood)

assess_risk_severity(indicators, risk_factors) ==
  LET assessed == List(
        [i \in 1..Len(risk_factors) |->
           LET text == risk_get(risk_factors[i], "text", <<>>)
               severity == _assess_risk_severity_level(indicators, text)
               impact_score == _calculate_impact_score(text, severity)
               likelihood == _assess_likelihood(text)
           IN Put(Put(Put(Put(risk_factors[i], "severity", severity),
                          "impact_score", impact_score),
                      "likelihood", likelihood),
                  "overall_risk_score", risk_score(impact_score, likelihood))])
  IN [risk_factors |-> assessed,
      risk_assessment |->
        [individual_risks |-> Positions(assessed),
         category_scores |-> _calculate_category_scores(assessed),
         overall_risk_score |->
           np_mean([i \in 1..Len(assessed) |->
                      risk_get(assessed[i], "overall_risk_score", Frac(0, 1))]),
         risk_distribution |-> _calculate_risk_distribution(assessed),
         top_risks |-> _identify_top_risks(assessed)]]

\* round(x, 2) to the nearest hundredth (an exact tie goes to the even one);
\* round(nan, 2) is nan
round2(x) ==
  IF ~IsNum(x) THEN x
  ELSE LET q == (x.n * 100) \div x.d
           r == (x.n * 100) % x.d
           up == 2 * r > x.d \/ (2 * r = x.d /\ q % 2 = 1)
       IN Frac(IF up THEN q + 1 ELSE q, 100)

\* "score >= a/b" on a float: false when the score is nan
AtLeast(score, a, b) == IsNum(score) /\ GE(score, a, b)

_get_highest_risk_categories(category_scores) ==
  LET key == List([k \in 1..Len(category_scores) |-> category_scores[k].average_score])
      sorted_categories == SortedBy(key, TRUE)
  IN [k \in 1..(IF Len(sorted_categories) < 3 THEN Len(sorted_categories) ELSE 3) |->
        category_scores[sorted_categories[k]].category]

risk_level(overall_score) ==
  IF AtLeast(overall_score, 4, 1) THEN "High"
  ELSE IF AtLeast(overall_score, 5, 2) THEN "Medium"
  ELSE "Low"

_create_executive_summary(risk_assessment) ==
  [overall_risk_level |-> risk_level(risk_assessment.overall_risk_score),
   overall_risk_score |-> round2(risk_assessment.overall_risk_score),
   total_risks_identified |-> Len(risk_assessment.individual_risks),
   highest_risk_categories |-> _get_highest_risk_categories(risk_assessment.category_scores),
   key_risks |-> SubSeq(risk_assessment.top_risks, 1,
                        IF Len(risk_assessment.top_risks) < 3
                          THEN Len(risk_assessment.top_risks) ELSE 3)]

_calculate_monitoring_priority(scores) ==
  IF AtLeast(scores.average_score, 4, 1) \/ scores.risk_count >= 5 THEN "High"
  ELSE IF AtLeast(scores.average_score, 5, 2) \/ scores.risk_count >= 3 THEN "Medium"
  ELSE "Low"

_create_category_summaries(risk_assessment) ==
  [k \in 1..Len(risk_assessment.category_scores) |->
     LET scores == risk_assessment.category_scores[k]
     IN [category |-> scores.category,
         risk_count |-> scores.risk_count,
         average_score |-> round2(scores.average_score),
         max_score |-> round2(scores.max_score),
         severity_breakdown |-> scores.severity_distribution,
         monitoring_priority |-> _calculate_monitoring_priority(scores)]]

\* the recommendations by their leading words
_generate_recommendations(risk_assessment) ==
  LET overall_score == risk_assessment.overall_risk_score
      focus == SelectSeq(risk_assessment.category_scores,
                         LAMBDA scores : IsNum(scores.average_score)
                                           /\ GT(scores.average_score, 3, 1))
  IN (IF AtLeast(overall_score, 4, 1) THEN <<"HIGH RISK", "Review">>
      ELSE IF AtLeast(overall_score, 5, 2) THEN <<"MEDIUM RISK">>
      ELSE <<"LOW RISK">>)
     \o [k \in 1..Len(focus) |-> focus[k].category]

\* the strategies by their leading words
base_strategies(category) ==
  CASE category = "market_risks" ->
         <<"Diversify customer base", "Implement hedging strategies", "Monitor competitive landscape">>
    [] category = "operational_risks" ->
         <<"Invest in cybersecurity", "Develop business continuity", "Strengthen vendor management">>
    [] category = "financial_risks" ->
         <<"Maintain adequate liquidity", "Monitor debt covenants", "Implement robust financial controls">>
    [] category = "regulatory_risks" ->
         <<"Establish compliance monitoring", "Maintain relationships", "Implement regular legal reviews">>
    [] OTHER -> <<"Review general risk management practices">>

\* the variant that asks for immediate action from an average above 3.0 on
_get_mitigation_strategies_for_category_focus(category, avg_score) ==
  (IF IsNum(avg_score) /\ GT(avg_score, 3, 1) THEN <<"IMMEDIATE ACTION REQUIRED">> ELSE <<>>)
    \o base_strategies(category)

_get_mitigation_strategies_for_category(category, avg_score) ==
  (IF AtLeast(avg_score, 4, 1) THEN <<"IMMEDIATE ACTION REQUIRED">> ELSE <<>>)
    \o base_strategies(category)

_suggest_mitigation_strategies(risk_assessment) ==
  [k \in 1..Len(risk_assessment.category_scores) |->
     LET scores == risk_assessment.category_scores[k]
     IN [category |-> scores.category,
         strategies |-> _get_mitigation_strategies_for_category(scores.category,
                                                                scores.average_score)]]

\* a fixed record: no earlier filing is compared
_analyze_risk_trends(risk_assessment) ==
  [trend_direction |-> "stable", new_risks_identified |-> 0, risks_resolved |-> 0,
   risk_evolution |-> "No significant changes detected"]

generate_risk_summary(risk_assessment) ==
  [executive_summary |-> _create_executive_summary(risk_assessment),
   risk_categories |-> _create_category_summaries(risk_assessment),
   mitigation_strategies |-> _suggest_mitigation_strategies(risk_assessment),
   risk_trends |-> _analyze_risk_trends(risk_assessment),
   recommendations |-> _generate_recommendations(risk_assessment)]

----------------------------------------------------------------------------
(***************************************************************************)
(* Risk factor extraction (RiskAssessment.extract_risk_factors)            *)
(*                                                                         *)
(* A filing is a sequence of lines, each beginning with its line break;    *)
(* the text handed to the engine is their concatenation.  What the regular *)
(* expressions find in a line is tabulated per line, and positions are     *)
(* character positions in the whole text.                                  *)
(***************************************************************************)

\* the places at which a line of a filing holds one of the words of the
\* section patterns ("item" is "item\s*\d+\.", "factor" is "factors?")
SectionWords(line) ==
  CASE line = "\nRisk Factors" ->
         {Occ("risk", 1, 5), Occ("factor", 6, 13)}
    [] line = "\nRisk Disclosure" ->
         {Occ("risk", 1, 5), Occ("disclosure", 6, 16)}
    [] line = "\n1. We face intense competition that could adversely affect our results." ->
         {}
    [] line = "\n2. Currency exposure." ->
         {}
    [] line = "\nRevenue grew in every segment!" ->
         {}
    [] line = "\nManagement Discussion and Analysis" ->
         {Occ("management", 1, 11), Occ("discussion", 12, 22), Occ("analysis", 27, 35)}
    [] line = "\nItem 7. Outlook" ->
         {Occ("item", 1, 8)}
    [] line = "\nThese are forward looking statements" ->
         {Occ("forward", 11, 18), Occ("looking", 19, 26)}
    [] OTHER -> {}

LineLength(line) ==
  CASE line = "\nRisk Factors" -> 13
    [] line = "\nRisk Disclosure" -> 16
    [] line = "\n1. We face intense competition that could adversely affect our results." -> 72
    [] line = "\n2. Currency exposure." -> 22
    [] line = "\nRevenue grew in every segment!" -> 31
    [] line = "\nManagement Discussion and Analysis" -> 35
    [] line = "\nItem 7. Outlook" -> 16
    [] line = "\nThese are forward looking statements" -> 37
    [] OTHER -> 0

\* the length of the match of "\n\s*\d+\.\s+" at the start of a line, 0 without one
NumberedPrefix(line) ==
  CASE line = "\n1. We face intense competition that could adversely affect our results." -> 4
    [] line = "\n2. Currency exposure." -> 4
    [] OTHER -> 0

\* line[a:b].strip(): the characters a..b-1 of a line without the white
\* space around them
Chunk(line, a, b) ==
  CASE line = "\nRisk Factors" /\ a = 0 /\ b = 13 ->
         "Risk Factors"
    [] line = "\nRisk Factors" /\ a = 1 /\ b = 13 ->
         "Risk Factors"
    [] line = "\nRisk Disclosure" /\ a = 0 /\ b = 16 ->
         "Risk Disclosure"
    [] line = "\nRisk Disclosure" /\ a = 1 /\ b = 16 ->
         "Risk Disclosure"
    [] line = "\n1. We face intense competition that could adversely affect our results." /\ a = 0 /\ b = 72 ->
         "1. We face intense competition that could adversely affect our results."
    [] line = "\n1. We face intense competition that could adversely affect our results." /\ a = 4 /\ b = 72 ->
         "We face intense competition that could adversely affect our results."
    [] line = "\n2. Currency exposure." /\ a = 0 /\ b = 22 ->
         "2. Currency exposure."
    [] line = "\n2. Currency exposure." /\ a = 4 /\ b = 22 ->
         "Currency exposure."
    [] line = "\nRevenue grew in every segment!" /\ a = 0 /\ b = 31 ->
         "Revenue grew in every segment!"
    [] line = "\nManagement Discussion and Analysis" /\ a = 0 /\ b = 1 ->
         ""
    [] line = "\nManagement Discussion and Analysis" /\ a = 0 /\ b = 35 ->
         "Management Discussion and Analysis"
    [] line = "\nManagement Discussion and Analysis" /\ a = 1 /\ b = 35 ->
         "Management Discussion and Analysis"
    [] line = "\nItem 7. Outlook" /\ a = 0 /\ b = 1 ->
         ""
    [] line = "\nItem 7. Outlook" /\ a = 0 /\ b = 16 ->
         "Item 7. Outlook"
    [] line = "\nThese are forward looking statements" /\ a = 0 /\ b = 11 ->
         "These are"
    [] line = "\nThese are forward looking statements" /\ a = 0 /\ b = 37 ->
         "These are forward looking statements"
    [] OTHER -> ""

\* len(piece)
Length(piece) ==
  CASE piece = "1. We face intense competition that could adversely affect our results." -> 71
    [] piece = "2. Currency exposure." -> 21
    [] piece = "Currency exposure." -> 18
    [] piece = "Item 7. Outlook" -> 15
    [] piece = "Management Discussion and Analysis" -> 34
    [] piece = "Revenue grew in every segment!" -> 30
    [] piece = "Risk Disclosure" -> 15
    [] piece = "Risk Factors" -> 12
    [] piece = "These are" -> 9
    [] piece = "These are forward looking statements" -> 36
    [] piece = "We face intense competition that could adversely affect our results." -> 68
    [] OTHER -> 0

\* re.sub(r"^[^\w\s]+", "", piece)
NoLeadingPunctuation(piece) ==
  piece

\* re.sub(r"[^\w\s]+$", "", piece)
NoTrailingPunctuation(piece) ==
  CASE piece = "1. We face intense competition that could adversely affect our results." ->
         "1. We face intense competition that could adversely affect our results"
    [] piece = "2. Currency exposure." ->
         "2. Currency exposure"
    [] piece = "Currency exposure." ->
         "Currency exposure"
    [] piece = "Revenue grew in every segment!" ->
         "Revenue grew in every segment"
    [] piece = "We face intense competition that could adversely affect our results." ->
         "We face intense competition that could adversely affect our results"
    [] OTHER -> piece

\* re.split(r"[.!?]+", line), each part stripped
Segments(line) ==
  CASE line = "\nRisk Factors" ->
         <<"Risk Factors">>
    [] line = "\nRisk Disclosure" ->
         <<"Risk Disclosure">>
    [] line = "\n1. We face intense competition that could adversely affect our results." ->
         <<"1", "We face intense competition that could adversely affect our results", "">>
    [] line = "\n2. Currency exposure." ->
         <<"2", "Currency exposure", "">>
    [] line = "\nRevenue grew in every segment!" ->
         <<"Revenue grew in every segment", "">>
    [] line = "\nManagement Discussion and Analysis" ->
         <<"Management Discussion and Analysis">>
    [] line = "\nItem 7. Outlook" ->
         <<"Item 7", "Outlook">>
    [] line = "\nThese are forward looking statements" ->
         <<"These are forward looking statements">>
    [] OTHER -> <<"">>

\* the risk keywords that segment.lower() contains
KeywordsIn(segment) ==
  CASE segment = "Currency exposure" ->
         {"exposure"}
    [] segment = "Risk Disclosure" ->
         {"risk"}
    [] segment = "Risk Factors" ->
         {"risk"}
    [] segment = "We face intense competition that could adversely affect our results" ->
         {"adverse"}
    [] OTHER -> {}
\* the position of the first character of line i in the whole text
LineStart(text, i) == SumSeq([j \in 1..(i - 1) |-> LineLength(text[j])])

\* every occurrence of a section word in the text
AllOccurrences(text) ==
  UNION {{[frag |-> o.frag, s |-> LineStart(text, i) + o.s, e |-> LineStart(text, i) + o.e]
            : o \in SectionWords(text[i])} : i \in 1..Len(text)}

\* with re.DOTALL ".*" runs over line breaks: the parts k.. of a pattern are
\* found in this order anywhere from position pos on
RECURSIVE ChainFrom(_, _, _, _)
ChainFrom(occ, parts, k, pos) ==
  IF k > Len(parts) THEN TRUE
  ELSE \E o \in occ : o.frag = parts[k] /\ o.s >= pos /\ ChainFrom(occ, parts, k + 1, o.e)

\* the parts k.. but the last are found in order from pos on, before the
\* occurrence of the last part that starts at target
RECURSIVE ChainTo(_, _, _, _, _)
ChainTo(occ, parts, k, pos, target) ==
  IF k >= Len(parts) THEN target >= pos
  ELSE \E o \in occ : o.frag = parts[k] /\ o.s >= pos /\ ChainTo(occ, parts, k + 1, o.e, target)

\* the three section patterns: the parts joined by ".*" and the alternatives
\* of the lookahead that ends the section
risk_section_patterns ==
  << [parts |-> <<"risk", "factor">>,
      lookahead |-> << <<"item">>, <<"management", "discussion">>,
                       <<"quantitative", "market">>, <<"forward", "looking">> >>],
     [parts |-> <<"risk", "disclosure">>,
      lookahead |-> << <<"item">>, <<"management", "discussion">>,
                       <<"quantitative", "market">>, <<"forward", "looking">> >>],
     [parts |-> <<"management", "discussion", "analysis">>,
      lookahead |-> << <<"item">>, <<"quantitative", "market">>,
                       <<"forward", "looking">> >>] >>

\* the positions at which the lookahead succeeds
LookaheadStarts(occ, lookahead) ==
  {o.s : o \in {x \in occ : \E t \in 1..Len(lookahead) :
                  x.frag = lookahead[t][1] /\ ChainFrom(occ, lookahead[t], 2, x.e)}}

FirstPosition(S) == CHOOSE x \in S : \A y \in S : x <= y
LastPosition(S) == CHOOSE x \in S : \A y \in S : x >= y

\* re.findall(pattern, filing_text, re.DOTALL | re.IGNORECASE) from position
\* pos on: a match starts at the first occurrence of the first part from
\* which the pattern can be completed; the greedy ".*" carries it to the last
\* occurrence of the last part that a lookahead position follows, and the
\* lazy ".*?" ends it at the first such position; the search goes on there
RECURSIVE re_findall(_, _, _, _)
re_findall(occ, parts, ends, pos) ==
  LET Lasts(first) ==
        {o \in occ : /\ o.frag = parts[Len(parts)]
                     /\ \E t \in ends : t >= o.e
                     /\ ChainTo(occ, parts, 2, first.e, o.s)}
      starts == {o \in occ : o.frag = parts[1] /\ o.s >= pos /\ Lasts(o) # {}}
  IN IF starts = {} THEN <<>>
     ELSE LET first == CHOOSE o \in starts : \A x \in starts : o.s <= x.s
              last_end == LastPosition({o.e : o \in Lasts(first)})
              to == FirstPosition({t \in ends : t >= last_end})
          IN <<[from |-> first.s, to |-> to]>> \o re_findall(occ, parts, ends, to)

\* re.split at the numbered separators ("\n\s*\d+\.\s+") of the section
\* text[from:to], line i on; an item is the sequence of the stripped pieces
\* of its lines.  The other separator, a line of capital letters only, is
\* in none of the lines of FilingLines.
RECURSIVE re_split(_, _, _, _, _)
re_split(text, from, to, i, risk_items) ==
  IF i > Len(text) THEN risk_items
  ELSE LET start == LineStart(text, i)
           a == IF from > start THEN from - start ELSE 0
           b == IF to - start < LineLength(text[i]) THEN to - start
                ELSE LineLength(text[i])
           prefix == NumberedPrefix(text[i])
           numbered == a = 0 /\ prefix > 0 /\ prefix <= b
           piece == Chunk(text[i], IF numbered THEN prefix ELSE a, b)
           added == IF piece = "" THEN <<>> ELSE <<piece>>
       IN IF b <= a THEN re_split(text, from, to, i + 1, risk_items)
          ELSE re_split(text, from, to, i + 1,
                        IF numbered THEN Append(risk_items, added)
                        ELSE [risk_items EXCEPT ![Len(risk_items)] = @ \o added])

\* len(item.strip()): the pieces of an item are one line break apart
StrippedLength(item) ==
  SumSeq([k \in 1..Len(item) |-> Length(item[k])]) + (IF item = <<>> THEN 0 ELSE Len(item) - 1)

\* the white space between the pieces becomes one blank, and the punctuation
\* before the first and after the last piece is dropped
_clean_risk_text(item) ==
  [pieces |-> [k \in 1..Len(item) |->
                 LET piece == IF k = 1 THEN NoLeadingPunctuation(item[k]) ELSE item[k]
                 IN IF k = Len(item) THEN NoTrailingPunctuation(piece) ELSE piece],
   joined_by |-> " "]

_parse_risk_section(text, section) ==
  LET risk_items == re_split(text, section.from, section.to, 1, << <<>> >>)
      kept == SelectSeq(risk_items, LAMBDA item : StrippedLength(item) > 50)
  IN [k \in 1..Len(kept) |->
        [text |-> _clean_risk_text(kept[k]),
         source_section |-> "risk_factors",
         extraction_confidence |-> Frac(8, 10)]]

risk_keywords ==
  <<"risk", "adverse", "uncertainty", "challenge", "threat", "exposure",
    "vulnerability", "liability", "obligation", "commitment">>

\* re.split(r'[.!?]+', text) and strip(): the first segment of a line goes
\* on with the sentence open at the end of the line before; a sentence is
\* the sequence of its non-empty segments, which are one line break apart
RECURSIVE SplitSentences(_, _, _)
SplitSentences(text, i, sentences) ==
  IF i > Len(text) THEN sentences
  ELSE LET segments == Segments(text[i])
           Piece(k) == IF segments[k] = "" THEN <<>> ELSE <<segments[k]>>
           joined == [sentences EXCEPT ![Len(sentences)] = @ \o Piece(1)]
       IN SplitSentences(text, i + 1,
                         joined \o [k \in 1..(Len(segments) - 1) |-> Piece(k + 1)])

_search_general_risks(text) ==
  LET sentences == SplitSentences(text, 1, << <<>> >>)
      kept == SelectSeq(sentences,
                        LAMBDA sentence :
                          \E k \in 1..Len(sentence) : \E w \in 1..Len(risk_keywords) :
                            risk_keywords[w] \in KeywordsIn(sentence[k]))
  IN [k \in 1..Len(kept) |->
        [text |-> [pieces |-> kept[k], joined_by |-> "\n"],
         source_section |-> "general_text",
         extraction_confidence |-> Frac(3, 10)]]

\* the items of every match of the three patterns, in this order
section_factors(text) ==
  LET occ == AllOccurrences(text)
      Factors(p) ==
        LET matches == re_findall(occ, risk_section_patterns[p].parts,
                                  LookaheadStarts(occ, risk_section_patterns[p].lookahead), 0)
        IN Concat([m \in 1..Len(matches) |-> _parse_risk_section(text, matches[m])], 1)
  IN Concat([p \in 1..Len(risk_section_patterns) |-> Factors(p)], 1)

\* the variant that searches the whole text in every case
extract_risk_factors_searching(text) ==
  section_factors(text) \o _search_general_risks(text)

extract_risk_factors(text) ==
  LET found == section_factors(text)
  IN IF found = <<>> THEN _search_general_risks(text) ELSE found

----------------------------------------------------------------------------
(* Inputs *)

\* sample_data of main(); the labels 1, 2, 3 stand for "2022", "2023", "2024"
SampleIncome ==
  << [period |-> 2,
      data |-> [revenue |-> Num(1000000), cost_of_goods_sold |-> Num(600000),
                gross_profit |-> Num(400000), operating_income |-> Num(200000),
                net_income |-> Num(150000)]],
     [period |-> 1,
      data |-> [revenue |-> Num(800000), cost_of_goods_sold |-> Num(480000),
                gross_profit |-> Num(320000), operating_income |-> Num(160000),
                net_income |-> Num(120000)]] >>

SampleBalance ==
  << [period |-> 2,
      data |-> [total_current_assets |-> Num(500000),
                cash_and_cash_equivalents |-> Num(100000),
                inventory |-> Num(150000), total_assets |-> Num(1200000),
                total_current_liabilities |-> Num(250000),
                total_liabilities |-> Num(600000), total_equity |-> Num(600000)]],
     [period |-> 1,
      data |-> [total_current_assets |-> Num(450000),
                cash_and_cash_equivalents |-> Num(90000),
                inventory |-> Num(140000), total_assets |-> Num(1100000),
                total_current_liabilities |-> Num(220000),
                total_liabilities |-> Num(550000), total_equity |-> Num(550000)]] >>

SampleData == [income_statement |-> SampleIncome, balance_sheet |-> SampleBalance]

\* statements that cover different periods: the income statement has period 2
\* only, the balance sheet period 1 only
UnmatchedData == [income_statement |-> <<SampleIncome[1]>>,
                  balance_sheet |-> <<SampleBalance[2]>>]

\* a further period that can be appended to a statement
NewIncome == [revenue |-> Num(900000), net_income |-> Num(90000)]
NewBalance == [total_assets |-> Num(1500000), total_equity |-> Num(500000),
               total_liabilities |-> Num(1000000)]

Statements == {"income_statement", "balance_sheet"}

IncomeItems == {"revenue", "cost_of_goods_sold", "gross_profit", "operating_income",
                "net_income", "interest_expense"}
BalanceItems == {"total_current_assets", "total_current_liabilities",
                 "cash_and_cash_equivalents", "marketable_securities", "inventory",
                 "total_assets", "total_equity", "total_liabilities",
                 "accounts_receivable"}

\* keys a statement may carry: its own line items, and one of the growth
\* metrics that normally lives in the other statement
ItemsOf(s) == IF s = "income_statement" THEN IncomeItems \cup {"total_assets"}
                                        ELSE BalanceItems \cup {"revenue"}

EditValues == {None, Str, Num(0)}

\* a StatementSet without any period, and one whose single period reports 0
\* for every line item
EmptyData == [income_statement |-> <<>>, balance_sheet |-> <<>>]
ZeroData ==
  [income_statement |-> << [period |-> 2, data |-> [k \in IncomeItems |-> Num(0)]] >>,
   balance_sheet |-> << [period |-> 2, data |-> [k \in BalanceItems |-> Num(0)]] >>]

\* ratio values handed directly to the health scorer, as fractions of 100:
\* each threshold, the value just before it, and a negative value
Entry(name, p, v) == [name |-> name, period |-> p, val |-> v]
Pct(x) == Rat(x, 100)
Absent == [t |-> "absent", n |-> 0, d |-> 1]
CurrentRatioValues == {Absent, None, Pct(99), Pct(100), Pct(149), Pct(150), Pct(200)}
NetMarginValues == {Absent, None, Pct(0 - 10), Pct(4), Pct(5), Pct(9), Pct(10)}
DebtToEquityValues == {Absent, None, Pct(100), Pct(101), Pct(200), Pct(201)}
AssetTurnoverValues == {Absent, None, Pct(24), Pct(25), Pct(49), Pct(50)}
ScoredFamily == [current_ratio |-> "liquidity", net_margin |-> "profitability",
                 debt_to_equity |-> "leverage", asset_turnover |-> "efficiency"]
OlderValues == {None, Pct(0), Pct(100)}

Latest(name, v) == IF v = Absent THEN <<>> ELSE <<Entry(name, 2, v)>>

\* one entry per scored ratio for the period "2023", after the entries of "extra"
HealthRatios(c, n, d, a, extra) ==
  LET Older(name) == SelectSeq(extra, LAMBDA e : e.name = name)
  IN [liquidity |-> Older("current_ratio") \o Older("quick_ratio") \o Latest("current_ratio", c),
      profitability |-> Older("net_margin") \o Latest("net_margin", n),
      leverage |-> Older("debt_to_equity") \o Latest("debt_to_equity", d),
      efficiency |-> Older("asset_turnover") \o Latest("asset_turnover", a)]

OlderEntries ==
  {<<>>} \cup {<<Entry(name, 1, v)>> :
                 name \in DOMAIN ScoredFamily \cup {"quick_ratio"}, v \in OlderValues}

\* series handed directly to the trend analysis
TrendValues == {0 - 100, 0, 94, 95, 96, 99, 100, 101, 105, 106, 110}
TrendSeries == UNION {[1..n -> TrendValues] : n \in 0..MaxLen}

\* arguments of benchmark_ratios
BenchmarkNames == {"current_ratio", "net_margin", "debt_to_equity", "peg_ratio"}
CompanyValues == {None, Pct(100), Pct(150), Pct(200), Pct(250)}
CompanyRatios ==
  {<<>>} \cup {<<Entry(x, 2, v)>> : x \in BenchmarkNames, v \in CompanyValues}
         \cup {<<Entry("current_ratio", 2, v), Entry(x, 2, w)>> :
                 x \in BenchmarkNames \ {"current_ratio"}, v \in CompanyValues, w \in CompanyValues}
IndustryBenchmarks ==
  {[x \in S |-> IF x = "current_ratio" THEN Pct(150) ELSE Pct(100)] :
     S \in {{}, {"current_ratio"}, {"current_ratio", "debt_to_equity"}, BenchmarkNames}}
         \cup {[x \in {"net_margin"} |-> Pct(0)]}

NoValue == [t |-> "void", n |-> 0, d |-> 1]

\* phrases of the risk texts: one match of a market, a regulatory, an
\* operational and a financial pattern, patterns of each severity bucket,
\* keywords of the impact and likelihood lists, and a line break
Vocabulary ==
  {"competition", "antitrust", "cybersecurity", "liquidity risk",
   "materially adverse", "critical dependence", "may impact", "minor impact",
   "expected fluctuation", "Unlikely", "remote", "significant",
   "price competition, talent competition, product competition, global competition",
   "\n"}
Texts == UNION {[1..n -> Vocabulary] : n \in 0..MaxWords}

\* a risk factor as extract_risk_factors hands it out
RawRisk(text) ==
  [text |-> text, source_section |-> "risk_factors", extraction_confidence |-> Frac(8, 10)]

\* texts of the longer lists: overall scores 4.0 and 1.5
PoolTexts == {<<"materially adverse", "expected fluctuation">>, <<"antitrust">>}

\* the lines of a filing: two section headings, a long and a short numbered
\* item, a sentence without a risk keyword, and three lines that end a section
FilingLines ==
  {"\nRisk Factors", "\nRisk Disclosure",
   "\n1. We face intense competition that could adversely affect our results.",
   "\n2. Currency exposure.",
   "\nRevenue grew in every segment!",
   "\nManagement Discussion and Analysis",
   "\nItem 7. Outlook",
   "\nThese are forward looking statements"}
Filings == UNION {[1..n -> FilingLines] : n \in 0..MaxLines}

\* texts of two categories with different scores within each category
MixedTexts == {<<"antitrust">>, <<"antitrust", "materially adverse">>,
               <<"competition", "minor impact">>,
               <<"materially adverse", "expected fluctuation">>}
RiskLists ==
  {<<RawRisk(t)>> : t \in Texts}
    \cup UNION {[1..n -> {RawRisk(t) : t \in PoolTexts}] : n \in 0..MaxRisks}
    \cup UNION {[1..n -> {RawRisk(t) : t \in MixedTexts}] : n \in 2..MaxMixed}

----------------------------------------------------------------------------
(* State machine *)

Init ==
  /\ financial_data \in {SampleData, EmptyData, ZeroData, UnmatchedData}
  /\ edits = 0
  /\ op = "none"
  /\ arg = NoValue
  /\ ret = NoValue
  /\ raised = FALSE
  /\ analysis_results = <<>>
  /\ benchmarking = <<>>
  /\ risk_patterns = RiskPatterns
  /\ severity_indicators = SeverityIndicators
  /\ risks = <<>>
  /\ risk_categories = <<>>
  /\ risk_scores = <<>>
  /\ risk_summary = <<>>
  /\ filing_text = <<>>
  /\ self_risk_factors = <<>>
  /\ calls = <<>>

Untouched == UNCHANGED <<op, arg, ret, raised, analysis_results, benchmarking, engine>>

\* the caller stores a value (a number, null or a non-numeric value) under a key
SetLineItem(s, i, key, v) ==
  /\ op = "none" /\ edits < MaxEdits
  /\ i \in 1..Len(financial_data[s])
  /\ LET old == financial_data[s][i].data
         new == [k \in DOMAIN old \cup {key} |-> IF k = key THEN v ELSE old[k]]
     IN /\ new # old
        /\ financial_data' = [financial_data EXCEPT ![s][i].data = new]
  /\ edits' = edits + 1
  /\ Untouched

\* the caller leaves a line item out
DelLineItem(s, i, key) ==
  /\ op = "none" /\ edits < MaxEdits
  /\ i \in 1..Len(financial_data[s])
  /\ key \in DOMAIN financial_data[s][i].data
  /\ LET old == financial_data[s][i].data
     IN financial_data' = [financial_data EXCEPT
                             ![s][i].data = [k \in DOMAIN old \ {key} |-> old[k]]]
  /\ edits' = edits + 1
  /\ Untouched

\* the caller leaves a period out of one statement
DelPeriod(s, i) ==
  /\ op = "none" /\ edits < MaxEdits
  /\ i \in 1..Len(financial_data[s])
  /\ LET old == financial_data[s]
     IN financial_data' = [financial_data EXCEPT
                             ![s] = SubSeq(old, 1, i - 1) \o SubSeq(old, i + 1, Len(old))]
  /\ edits' = edits + 1
  /\ Untouched

\* the caller appends the period "2024" to one statement
AddPeriod(s) ==
  /\ op = "none" /\ edits < MaxEdits
  /\ ~HasPeriod(financial_data[s], 3)
  /\ financial_data' = [financial_data EXCEPT
       ![s] = Append(@, [period |-> 3,
                         data |-> IF s = "income_statement" THEN NewIncome ELSE NewBalance])]
  /\ edits' = edits + 1
  /\ Untouched

\* the four public ratio calculators, called on the current input
CalculateRatios ==
  /\ op = "none"
  /\ op' = "ratios"
  /\ ret' = _calculate_financial_ratios(financial_data)
  /\ raised' = FALSE
  /\ UNCHANGED <<financial_data, edits, arg, analysis_results, benchmarking>>
  /\ UNCHANGED engine

\* the growth step alone, called on the current input
CalculateGrowthRates ==
  /\ op = "none"
  /\ op' = "growth"
  /\ ret' = _calculate_growth_rates(financial_data)
  /\ raised' = FALSE
  /\ UNCHANGED <<financial_data, edits, arg, analysis_results, benchmarking>>
  /\ UNCHANGED engine

Analyze ==
  /\ op = "none"
  /\ op' = "analyze"
  /\ LET r == analyze_financial_statements(financial_data)
     IN /\ raised' = r.raise
        /\ ret' = IF r.raise THEN NoValue ELSE r.analysis
        /\ analysis_results' = IF r.raise THEN analysis_results ELSE r.analysis
  /\ UNCHANGED <<financial_data, edits, arg, benchmarking>>
  /\ UNCHANGED engine

\* operations that do not read financial_data take their argument directly;
\* they are explored from the unchanged sample input
Direct == op = "none" /\ edits = 0 /\ financial_data = SampleData

AssessHealth(ratios) ==
  /\ Direct
  /\ op' = "health"
  /\ arg' = ratios
  /\ ret' = _assess_financial_health(ratios)
  /\ raised' = FALSE
  /\ UNCHANGED <<financial_data, edits, analysis_results, benchmarking>>
  /\ UNCHANGED engine

AnalyzeTrend(values) ==
  /\ Direct
  /\ op' = "trend"
  /\ arg' = values
  /\ ret' = _analyze_trend(values)
  /\ raised' = FALSE
  /\ UNCHANGED <<financial_data, edits, analysis_results, benchmarking>>
  /\ UNCHANGED engine

BenchmarkRatios(company_ratios, industry_benchmarks) ==
  /\ Direct
  /\ op' = "benchmark"
  /\ arg' = <<company_ratios, industry_benchmarks>>
  /\ LET r == benchmark_ratios(company_ratios, industry_benchmarks)
     IN /\ raised' = r.raise
        /\ ret' = IF r.raise THEN NoValue ELSE r.benchmarking
        /\ benchmarking' = IF r.raise THEN benchmarking ELSE r.benchmarking
  /\ UNCHANGED <<financial_data, edits, analysis_results>>
  /\ UNCHANGED engine

\* the guards are repeated in front of the quantifiers so that a finished
\* call does not enumerate the inputs
CanEdit == op = "none" /\ edits < MaxEdits

Next ==
  \/ CanEdit /\ \E s \in Statements : \E i \in 1..3 : \E key \in ItemsOf(s) :
       \E v \in EditValues : SetLineItem(s, i, key, v)
  \/ CanEdit /\ \E s \in Statements : \E i \in 1..3 : \E key \in ItemsOf(s) :
       DelLineItem(s, i, key)
  \/ CanEdit /\ \E s \in Statements : \E i \in 1..3 : DelPeriod(s, i)
  \/ CanEdit /\ \E s \in Statements : AddPeriod(s)
  \/ CalculateRatios
  \/ CalculateGrowthRates
  \/ Analyze
  \/ Direct /\ \E c \in CurrentRatioValues : \E n \in NetMarginValues :
       \E d \in DebtToEquityValues : \E a \in AssetTurnoverValues : \E extra \in OlderEntries :
         AssessHealth(HealthRatios(c, n, d, a, extra))
  \/ Direct /\ \E values \in TrendSeries : AnalyzeTrend(values)
  \/ Direct /\ \E c \in CompanyRatios : \E b \in IndustryBenchmarks : BenchmarkRatios(c, b)

Spec == Init /\ [][Next]_vars

----------------------------------------------------------------------------
(* State machine of the risk engine: one RiskAssessment instance and one    *)
(* caller's list of risk factors, on which the operations are called in any *)
(* order and any number of times.                                           *)

RiskInit ==
  /\ financial_data = SampleData
  /\ edits = 0
  /\ op = "none"
  /\ arg = NoValue
  /\ ret = NoValue
  /\ raised = FALSE
  /\ analysis_results = <<>>
  /\ benchmarking = <<>>
  /\ risk_patterns = RiskPatterns
  /\ severity_indicators = SeverityIndicators
  /\ risks \in RiskLists
  /\ risk_categories = <<>>
  /\ risk_scores = <<>>
  /\ risk_summary = <<>>
  /\ filing_text = <<>>
  /\ self_risk_factors = <<>>
  /\ calls = <<>>

Analyzer == <<financial_data, edits, arg, raised, analysis_results, benchmarking,
              filing_text, self_risk_factors, calls>>

ClassifyRisks ==
  /\ LET r == classify_risks(risk_patterns, risks)
     IN /\ risks' = r.risk_factors
        /\ risk_categories' = r.risk_categories
        /\ ret' = r.risk_categories
  /\ op' = "classify"
  /\ UNCHANGED <<risk_patterns, severity_indicators, risk_scores, risk_summary>>
  /\ UNCHANGED Analyzer

\* the variant that uses up the first category's patterns while it runs
AssessRiskSeverity_consuming ==
  /\ LET r == assess_risk_severity(severity_indicators, risks)
     IN /\ risks' = r.risk_factors
        /\ risk_scores' = r.risk_assessment
        /\ ret' = r.risk_assessment
  /\ op' = "assess"
  /\ risk_patterns' = Tail(risk_patterns)
  /\ UNCHANGED <<severity_indicators, risk_categories, risk_summary>>
  /\ UNCHANGED Analyzer

AssessRiskSeverity ==
  /\ LET r == assess_risk_severity(severity_indicators, risks)
     IN /\ risks' = r.risk_factors
        /\ risk_scores' = r.risk_assessment
        /\ ret' = r.risk_assessment
  /\ op' = "assess"
  /\ UNCHANGED <<risk_patterns, severity_indicators, risk_categories, risk_summary>>
  /\ UNCHANGED Analyzer

\* the caller hands over the assessment it got from assess_risk_severity
GenerateRiskSummary ==
  /\ risk_scores # <<>>
  /\ risk_summary' = generate_risk_summary(risk_scores)
  /\ ret' = risk_summary'
  /\ op' = "summary"
  /\ UNCHANGED <<risk_patterns, severity_indicators, risks, risk_categories, risk_scores>>
  /\ UNCHANGED Analyzer

RiskNext == ClassifyRisks \/ AssessRiskSeverity \/ GenerateRiskSummary

RiskSpec == RiskInit /\ [][RiskNext]_vars

\* the extraction of the risk factors of a filing, called on a new engine
ExtractInit ==
  /\ financial_data = SampleData
  /\ edits = 0
  /\ op = "none"
  /\ arg = NoValue
  /\ ret = NoValue
  /\ raised = FALSE
  /\ analysis_results = <<>>
  /\ benchmarking = <<>>
  /\ risk_patterns = RiskPatterns
  /\ severity_indicators = SeverityIndicators
  /\ risks = <<>>
  /\ risk_categories = <<>>
  /\ risk_scores = <<>>
  /\ risk_summary = <<>>
  /\ filing_text \in Filings
  /\ self_risk_factors = <<>>
  /\ calls = <<>>

ExtractRiskFactors ==
  /\ op = "none"
  /\ self_risk_factors' = extract_risk_factors(filing_text)
  /\ ret' = self_risk_factors'
  /\ op' = "extract"
  /\ UNCHANGED <<financial_data, edits, arg, raised, analysis_results, benchmarking>>
  /\ UNCHANGED <<risk_patterns, severity_indicators, risks, risk_categories, risk_scores,
                 risk_summary, filing_text, calls>>

ExtractNext == ExtractRiskFactors

ExtractSpec == ExtractInit /\ [][ExtractNext]_vars

\* Two callers share one instance.  Each has its own input and holds what its
\* calls returned; the instance fields are the shared ones.  A call is one
\* step up to and including its store to an instance field, and a further
\* step where it reads an instance field afterwards; the risk categories
\* refer to the risks by their position in the list of the call that stored
\* them.
Threads == {1, 2}

NewCall(job, input) ==
  [job |-> job, pc |-> IF job = "analyze" THEN "analyze" ELSE "classify",
   input |-> input, risks |-> IF job = "analyze" THEN <<>> ELSE input,
   returned |-> {}, analysis |-> <<>>, classified |-> <<>>, assessment |-> <<>>,
   summary |-> <<>>]

SharedData == {SampleData, ZeroData, UnmatchedData}
SharedLists ==
  {<<RawRisk(<<"antitrust">>)>>,
   <<RawRisk(<<"competition", "minor impact">>)>>,
   <<RawRisk(<<"materially adverse", "expected fluctuation">>), RawRisk(<<"antitrust">>)>>}

SharedInit ==
  /\ financial_data = SampleData
  /\ edits = 0
  /\ op = "none"
  /\ arg = NoValue
  /\ ret = NoValue
  /\ raised = FALSE
  /\ analysis_results = <<>>
  /\ benchmarking = <<>>
  /\ risk_patterns = RiskPatterns
  /\ severity_indicators = SeverityIndicators
  /\ risks = <<>>
  /\ risk_categories = <<>>
  /\ risk_scores = <<>>
  /\ risk_summary = <<>>
  /\ filing_text = <<>>
  /\ self_risk_factors = <<>>
  /\ \/ calls \in [Threads -> {NewCall("analyze", d) : d \in SharedData}]
     \/ calls \in [Threads -> {NewCall("pipeline", l) : l \in SharedLists}]

Callers == <<financial_data, edits, op, arg, ret, raised, benchmarking, risk_patterns,
             severity_indicators, risks, filing_text, self_risk_factors>>

\* analyze_financial_statements: the analysis is built in a local variable,
\* stored in self.analysis_results and returned from the local variable
AnalyzeCall(t) ==
  /\ calls[t].pc = "analyze"
  /\ LET r == analyze_financial_statements(calls[t].input)
     IN /\ analysis_results' = IF r.raise THEN analysis_results ELSE r.analysis
        /\ calls' = [calls EXCEPT ![t].pc = "done", ![t].analysis = r,
                                  ![t].returned = @ \cup {"analyze"}]
  /\ UNCHANGED <<risk_categories, risk_scores, risk_summary>>
  /\ UNCHANGED Callers

\* classify_risks up to "self.risk_categories = dict(categorized_risks)"
ClassifyStore(t) ==
  /\ calls[t].pc = "classify"
  /\ LET r == classify_risks(risk_patterns, calls[t].risks)
     IN /\ risk_categories' = r.risk_categories
        /\ calls' = [calls EXCEPT ![t].pc = "classify_return", ![t].risks = r.risk_factors]
  /\ UNCHANGED <<analysis_results, risk_scores, risk_summary>>
  /\ UNCHANGED Callers

\* the variant that returns the dict it built
ClassifyReturn_local(t) ==
  /\ calls[t].pc = "classify_return"
  /\ calls' = [calls EXCEPT ![t].pc = "assess",
                            ![t].classified = classify_risks(risk_patterns,
                                                             calls[t].risks).risk_categories,
                            ![t].returned = @ \cup {"classify"}]
  /\ UNCHANGED <<analysis_results, risk_categories, risk_scores, risk_summary>>
  /\ UNCHANGED Callers

\* "return self.risk_categories": the instance field is read again
ClassifyReturn(t) ==
  /\ calls[t].pc = "classify_return"
  /\ calls' = [calls EXCEPT ![t].pc = "assess", ![t].classified = risk_categories,
                            ![t].returned = @ \cup {"classify"}]
  /\ UNCHANGED <<analysis_results, risk_categories, risk_scores, risk_summary>>
  /\ UNCHANGED Callers

\* assess_risk_severity: the assessment is stored in self.risk_scores and
\* returned from the local variable
AssessCall(t) ==
  /\ calls[t].pc = "assess"
  /\ LET r == assess_risk_severity(severity_indicators, calls[t].risks)
     IN /\ risk_scores' = r.risk_assessment
        /\ calls' = [calls EXCEPT ![t].pc = "summary", ![t].risks = r.risk_factors,
                                  ![t].assessment = r.risk_assessment,
                                  ![t].returned = @ \cup {"assess"}]
  /\ UNCHANGED <<analysis_results, risk_categories, risk_summary>>
  /\ UNCHANGED Callers

\* generate_risk_summary on the assessment the caller got: the summary is
\* stored in self.risk_summary and returned from the local variable
SummaryCall(t) ==
  /\ calls[t].pc = "summary"
  /\ LET summary == generate_risk_summary(calls[t].assessment)
     IN /\ risk_summary' = summary
        /\ calls' = [calls EXCEPT ![t].pc = "done", ![t].summary = summary,
                                  ![t].returned = @ \cup {"summary"}]
  /\ UNCHANGED <<analysis_results, risk_categories, risk_scores>>
  /\ UNCHANGED Callers

SharedNext ==
  \/ \E t \in Threads : AnalyzeCall(t)
  \/ \E t \in Threads : ClassifyStore(t)
  \/ \E t \in Threads : ClassifyReturn(t)
  \/ \E t \in Threads : AssessCall(t)
  \/ \E t \in Threads : SummaryCall(t)

SharedSpec == SharedInit /\ [][SharedNext]_vars

----------------------------------------------------------------------------
(* Properties of the Ratio Calculator *)

\* every ratio with the statement and line item of its denominator and the
\* line items it reads; joined ratios need the period in both statements
RatioTable ==
  { [family |-> "liquidity", name |-> "current_ratio", joined |-> FALSE,
     stmt |-> "balance_sheet", denom |-> "total_current_liabilities",
     inputs |-> {<<"balance_sheet", "total_current_assets">>,
                 <<"balance_sheet", "total_current_liabilities">>}],
    [family |-> "liquidity", name |-> "quick_ratio", joined |-> FALSE,
     stmt |-> "balance_sheet", denom |-> "total_current_liabilities",
     inputs |-> {<<"balance_sheet", "total_current_assets">>,
                 <<"balance_sheet", "inventory">>,
                 <<"balance_sheet", "total_current_liabilities">>}],
    [family |-> "liquidity", name |-> "cash_ratio", joined |-> FALSE,
     stmt |-> "balance_sheet", denom |-> "total_current_liabilities",
     inputs |-> {<<"balance_sheet", "cash_and_cash_equivalents">>,
                 <<"balance_sheet", "marketable_securities">>,
                 <<"balance_sheet", "total_current_liabilities">>}],
    [family |-> "profitability", name |-> "gross_margin", joined |-> FALSE,
     stmt |-> "income_statement", denom |-> "revenue",
     inputs |-> {<<"income_statement", "gross_profit">>,
                 <<"income_statement", "revenue">>}],
    [family |-> "profitability", name |-> "operating_margin", joined |-> FALSE,
     stmt |-> "income_statement", denom |-> "revenue",
     inputs |-> {<<"income_statement", "operating_income">>,
                 <<"income_statement", "revenue">>}],
    [family |-> "profitability", name |-> "net_margin", joined |-> FALSE,
     stmt |-> "income_statement", denom |-> "revenue",
     inputs |-> {<<"income_statement", "net_income">>,
                 <<"income_statement", "revenue">>}],
    [family |-> "profitability", name |-> "roa", joined |-> TRUE,
     stmt |-> "balance_sheet", denom |-> "total_assets",
     inputs |-> {<<"income_statement", "net_income">>,
                 <<"balance_sheet", "total_assets">>}],
    [family |-> "profitability", name |-> "roe", joined |-> TRUE,
     stmt |-> "balance_sheet", denom |-> "total_equity",
     inputs |-> {<<"income_statement", "net_income">>,
                 <<"balance_sheet", "total_equity">>}],
    [family |-> "efficiency", name |-> "asset_turnover", joined |-> TRUE,
     stmt |-> "balance_sheet", denom |-> "total_assets",
     inputs |-> {<<"income_statement", "revenue">>,
                 <<"balance_sheet", "total_assets">>}],
    [family |-> "efficiency", name |-> "inventory_turnover", joined |-> TRUE,
     stmt |-> "balance_sheet", denom |-> "inventory",
     inputs |-> {<<"income_statement", "cost_of_goods_sold">>,
                 <<"balance_sheet", "inventory">>}],
    [family |-> "efficiency", name |-> "receivables_turnover", joined |-> TRUE,
     stmt |-> "balance_sheet", denom |-> "accounts_receivable",
     inputs |-> {<<"income_statement", "revenue">>,
                 <<"balance_sheet", "accounts_receivable">>}],
    [family |-> "leverage", name |-> "debt_to_equity", joined |-> TRUE,
     stmt |-> "balance_sheet", denom |-> "total_equity",
     inputs |-> {<<"balance_sheet", "total_liabilities">>,
                 <<"balance_sheet", "total_equity">>}],
    [family |-> "leverage", name |-> "debt_to_assets", joined |-> TRUE,
     stmt |-> "balance_sheet", denom |-> "total_assets",
     inputs |-> {<<"balance_sheet", "total_liabilities">>,
                 <<"balance_sheet", "total_assets">>}],
    [family |-> "leverage", name |-> "interest_coverage", joined |-> FALSE,
     stmt |-> "income_statement", denom |-> "interest_expense",
     inputs |-> {<<"income_statement", "operating_income">>,
                 <<"income_statement", "interest_expense">>}] }

AllPeriods == 1..3

\* the ratio r is computed for period p of the input
Applies(r, p) ==
  IF r.joined
    THEN HasPeriod(financial_data.income_statement, p)
         /\ HasPeriod(financial_data.balance_sheet, p)
    ELSE HasPeriod(financial_data[r.stmt], p)

ItemPresent(s, p, item) ==
  HasPeriod(financial_data[s], p) /\ item \in DOMAIN PeriodData(financial_data[s], p)

ItemIs(s, p, item, v) ==
  ItemPresent(s, p, item) /\ PeriodData(financial_data[s], p)[item] = v

\* the ratio mapping "family" holds the value v under the key "name_p"
Stored(ratios, family, name, p, v) ==
  \E i \in 1..Len(ratios[family]) :
    ratios[family][i] = [name |-> name, period |-> p, val |-> v]

HasKey(ratios, family, name, p) ==
  \E i \in 1..Len(ratios[family]) :
    ratios[family][i].name = name /\ ratios[family][i].period = p

\* C1: for every ratio and every period, when the ratio's denominator line
\* item is exactly 0 the calculator stores null under the ratio's key for
\* that period.
C1_ZeroDenominatorStoresNull ==
  op = "ratios" =>
    \A r \in RatioTable : \A p \in AllPeriods :
      (Applies(r, p) /\ ItemIs(r.stmt, p, r.denom, Num(0)))
        => Stored(ret, r.family, r.name, p, None)

\* C2: a missing line item is never treated as zero: when an input line item
\* of a ratio is absent from the period's data the stored ratio is null, and a
\* null line-item value is not turned into 0 in the series of the trend
\* analysis.
C2_AbsentInputStoresNull ==
  op = "ratios" =>
    \A r \in RatioTable : \A p \in AllPeriods :
      (Applies(r, p) /\ \E in \in r.inputs : ~ItemPresent(in[1], p, in[2]))
        => Stored(ret, r.family, r.name, p, None)

C2_NullNotZeroInSeries ==
  (op = "analyze" /\ ~raised) =>
    \A m \in DOMAIN ret.trends :
      LET stmt == IF m[1] = "" THEN financial_data.income_statement
                               ELSE financial_data.balance_sheet
          has == SelectSeq(stmt, LAMBDA e : m[2] \in DOMAIN e.data)
      IN \A i \in 1..Len(has) :
           IsNone(has[i].data[m[2]]) => ret.trends[m].values[i] # 0

C2_MissingNeverZero == C2_AbsentInputStoresNull /\ C2_NullNotZeroInSeries

\* C3: a null ratio value goes through the health scorer and through
\* benchmark_ratios without an exception: both return their result.
C3_NullPropagatesWithoutRaise ==
  /\ (op = "health" => ~raised /\ ret.level \in {"Excellent", "Good", "Fair", "Poor"})
  /\ (op = "benchmark" => ~raised)

\* the StatementSet without period p, and the ratios of the other periods
WithoutPeriod(fd, p) ==
  [income_statement |-> SelectSeq(fd.income_statement, LAMBDA e : e.period # p),
   balance_sheet |-> SelectSeq(fd.balance_sheet, LAMBDA e : e.period # p)]

OtherPeriods(ratios, p) ==
  [f \in DOMAIN ratios |-> SelectSeq(ratios[f], LAMBDA e : e.period # p)]

\* C4: one bad period never fails the whole analysis: with a null or a
\* non-numeric value in a period, analyze_financial_statements still returns
\* the bundle, and the ratios of every other period are those of the
\* StatementSet without that period.
C4_BadPeriodNeverFailsAnalysis ==
  op = "analyze" =>
    /\ ~raised
    /\ DOMAIN ret = {"ratios", "trends", "growth_rates", "financial_health"}
    /\ \A p \in AllPeriods :
         OtherPeriods(ret.ratios, p)
           = _calculate_financial_ratios(WithoutPeriod(financial_data, p))

----------------------------------------------------------------------------
(* Properties of the Health Scorer *)

HealthChecked == op = "health" \/ (op = "analyze" /\ ~raised)
Assessment == IF op = "health" THEN ret ELSE ret.financial_health
ScoredRatios == IF op = "health" THEN arg ELSE ret.ratios

\* C5: the score lies in [0,100], current_score <= max_score, max_score is
\* one of 0, 25, 50, 75, 100, and the score is 0 when max_score is 0.
C5_ScoreRange ==
  HealthChecked =>
    LET h == Assessment
    IN /\ h.score.n >= 0 /\ h.score.n <= 100 * h.score.d
       /\ h.current_score.n * h.max_score.d <= h.max_score.n * h.current_score.d
       /\ h.max_score \in {Num(0), Num(25), Num(50), Num(75), Num(100)}
       /\ (h.max_score = Num(0) => h.score.n = 0)

C5_Witness ==
  /\ op = "health"
  /\ arg.liquidity = <<[name |-> "current_ratio", period |-> 2, val |-> None]>>
  /\ ret.max_score = Num(0)
  /\ ret.score = Num(0)

ScoredNames == {"current_ratio", "net_margin", "debt_to_equity", "asset_turnover"}

LatestValue(name) == _get_latest_ratio(ScoredRatios[ScoredFamily[name]], name)

ClearsGood(name, v) ==
  IF name = "current_ratio" THEN 2 * v.n >= 3 * v.d
  ELSE IF name = "net_margin" THEN 10 * v.n >= v.d
  ELSE IF name = "debt_to_equity" THEN v.n <= v.d
  ELSE 2 * v.n >= v.d

ClearsAcceptable(name, v) ==
  IF name = "current_ratio" THEN v.n >= v.d
  ELSE IF name = "net_margin" THEN 20 * v.n >= v.d
  ELSE IF name = "debt_to_equity" THEN v.n <= 2 * v.d
  ELSE 4 * v.n >= v.d

\* contribution of one sub-check in half points: 25 -> 50, 12.5 -> 25
HalfPoints(name) ==
  LET v == LatestValue(name)
  IN IF ~IsNum(v) THEN 0
     ELSE IF ClearsGood(name, v) THEN 50
     ELSE IF ClearsAcceptable(name, v) THEN 25
     ELSE 0

Fails(name) ==
  LET v == LatestValue(name)
  IN IsNum(v) /\ ~ClearsGood(name, v) /\ ~ClearsAcceptable(name, v)

IssueOf == [current_ratio |-> "Low current ratio", net_margin |-> "Low net margin",
            debt_to_equity |-> "High debt-to-equity ratio",
            asset_turnover |-> "Low asset turnover"]

\* C6: each present sub-check adds 25 to max_score and 25, 12.5 or 0 to
\* current_score (0 together with exactly one issue); an absent sub-check
\* adds nothing to max_score, current_score or issues.
C6_SubCheckContributions ==
  HealthChecked =>
    LET h == Assessment
    IN /\ h.max_score = Num(25 * Cardinality({x \in ScoredNames : IsNum(LatestValue(x))}))
       /\ h.current_score =
            Rat(HalfPoints("current_ratio") + HalfPoints("net_margin")
                  + HalfPoints("debt_to_equity") + HalfPoints("asset_turnover"), 2)
       /\ Len(h.issues) = Cardinality({x \in ScoredNames : Fails(x)})
       /\ \A x \in ScoredNames :
            Fails(x) <=> \E i \in 1..Len(h.issues) : h.issues[i].issue = IssueOf[x]

\* current_ratio = 2.0 alone: 25 of 25 points
C6_Witness ==
  /\ op = "health"
  /\ arg = HealthRatios(Pct(200), Absent, Absent, Absent, <<>>)
  /\ ret.max_score = Num(25)
  /\ ret.current_score = Rat(50, 2)
  /\ ret.issues = <<>>

ScoredEntries(ratios) ==
  {e \in UNION {{ratios[f][i] : i \in 1..Len(ratios[f])} : f \in DOMAIN ratios} :
     e.name \in ScoredNames}

\* every scored ratio has a value, and every value clears the good threshold
AllGood(ratios) ==
  /\ \A x \in ScoredNames : \E e \in ScoredEntries(ratios) : e.name = x
  /\ \A e \in ScoredEntries(ratios) : IsNum(e.val) /\ ClearsGood(e.name, e.val)

NoScoredRatio(ratios) == \A e \in ScoredEntries(ratios) : ~IsNum(e.val)

\* C7: the level is a function of the score: Excellent iff >= 80, Good iff
\* 60 <= score < 80, Fair iff 40 <= score < 60, Poor iff < 40; the pipeline
\* gives 100 and Excellent when the four scored ratios clear their good
\* thresholds, and 0 and Poor when no scored ratio has a value.
C7_LevelFromScore ==
  HealthChecked =>
    LET h == Assessment
        s == h.score
    IN /\ (h.level = "Excellent") <=> (s.n >= 80 * s.d)
       /\ (h.level = "Good") <=> (s.n >= 60 * s.d /\ s.n < 80 * s.d)
       /\ (h.level = "Fair") <=> (s.n >= 40 * s.d /\ s.n < 60 * s.d)
       /\ (h.level = "Poor") <=> (s.n < 40 * s.d)
       /\ (op = "analyze" /\ AllGood(ret.ratios))
            => (s.n = 100 * s.d /\ h.level = "Excellent")
       /\ (op = "analyze" /\ NoScoredRatio(ret.ratios))
            => (s.n = 0 /\ h.level = "Poor")

C7_Witness ==
  /\ op = "analyze" /\ ~raised
  /\ financial_data = SampleData
  /\ AllGood(ret.ratios)
  /\ ret.financial_health.score.n = 100 * ret.financial_health.score.d
  /\ ret.financial_health.level = "Excellent"

----------------------------------------------------------------------------
(* Properties of the Trend/Growth Engine *)

TrendAgrees(values, rec) ==
  LET first == values[1]
      last == values[Len(values)]
      num == (last - first) * 100
      den == Abs(first)
  IN IF first = 0
       THEN rec.percentage_change = Num(0) /\ rec.direction = "stable"
       ELSE /\ rec.percentage_change = Rat(num, den)
            /\ (rec.direction = "strong_up") <=> (num > 5 * den)
            /\ (rec.direction = "moderate_up") <=> (num > den /\ num <= 5 * den)
            /\ (rec.direction = "stable") <=> (num > 0 - den /\ num <= den)
            /\ (rec.direction = "moderate_down") <=> (num > 0 - 5 * den /\ num <= 0 - den)
            /\ (rec.direction = "strong_down") <=> (num <= 0 - 5 * den)

\* C8: for a series of at least 2 values the direction follows
\* pct = (last - first) / |first| * 100 (0 when first is 0): strong_up iff
\* pct > 5, moderate_up iff 1 < pct <= 5, stable iff -1 < pct <= 1,
\* moderate_down iff -5 < pct <= -1, strong_down iff pct <= -5.
C8_TrendDirection ==
  /\ (op = "trend" /\ Len(arg) >= 2) =>
       /\ TrendAgrees(arg, ret)
       /\ arg = <<100, 100>> => (ret.direction = "stable" /\ ret.percentage_change.n = 0)
       /\ arg = <<100, 110>> =>
            /\ ret.direction = "strong_up"
            /\ ret.percentage_change.n = 10 * ret.percentage_change.d
  /\ (op = "analyze" /\ ~raised) =>
       \A m \in DOMAIN ret.trends : TrendAgrees(ret.trends[m].values, ret.trends[m])

C8_Witness ==
  /\ op = "trend"
  /\ arg = <<100, 105>>
  /\ ret.direction = "moderate_up"
  /\ ret.percentage_change.n = 5 * ret.percentage_change.d

GrowthChecked == op = "growth" \/ (op = "analyze" /\ ~raised)
GrowthRates == IF op = "growth" THEN ret ELSE ret.growth_rates

LabelSet(stmt) == {stmt[i].period : i \in 1..Len(stmt)}
Greatest(S) == CHOOSE x \in S : \A y \in S : y <= x

\* value of a metric in a period: the income statement's unless it is missing
\* or null, then the balance sheet's
ValueIn(metric, p) ==
  IF ItemPresent("income_statement", p, metric)
       /\ ~IsNone(PeriodData(financial_data.income_statement, p)[metric])
    THEN PeriodData(financial_data.income_statement, p)[metric]
  ELSE IF ItemPresent("balance_sheet", p, metric)
    THEN PeriodData(financial_data.balance_sheet, p)[metric]
  ELSE None

GrowthRecordAgrees(rec, metric, prev, cur) ==
  /\ rec.period = <<prev, cur>>
  /\ rec.current_value = ValueIn(metric, cur)
  /\ rec.previous_value = ValueIn(metric, prev)
  /\ rec.growth_rate = Rat((ValueIn(metric, cur).n - ValueIn(metric, prev).n) * 100,
                           Abs(ValueIn(metric, prev).n))

\* C10 as stated: a record is produced iff the metric has a non-null value in
\* both of the two lexicographically greatest period labels of the
\* StatementSet and the previous value is not 0.
C10_Original ==
  GrowthChecked =>
    LET labels == LabelSet(financial_data.income_statement)
                    \cup LabelSet(financial_data.balance_sheet)
    IN \A metric \in GrowthMetrics :
         (metric \in DOMAIN GrowthRates) <=>
            /\ Cardinality(labels) >= 2
            /\ LET cur == Greatest(labels)
                   prev == Greatest(labels \ {cur})
               IN /\ ~IsNone(ValueIn(metric, cur))
                  /\ ~IsNone(ValueIn(metric, prev))
                  /\ ValueIn(metric, prev) # Num(0)

\* C10 amended: a record is produced iff the income statement has at least
\* two periods, the metric has a numeric value in both of the two
\* lexicographically greatest income-statement labels and the previous value
\* is not 0; the record then names these two periods and
\* growth_rate = (current - previous) / |previous| * 100.
C10_GrowthLatestIncomePeriods ==
  GrowthChecked =>
    LET labels == LabelSet(financial_data.income_statement)
    IN /\ DOMAIN GrowthRates \subseteq GrowthMetrics
       /\ \A metric \in GrowthMetrics :
            IF Cardinality(labels) < 2 THEN metric \notin DOMAIN GrowthRates
            ELSE LET cur == Greatest(labels)
                     prev == Greatest(labels \ {cur})
                 IN /\ (metric \in DOMAIN GrowthRates) <=>
                         /\ IsNum(ValueIn(metric, cur))
                         /\ IsNum(ValueIn(metric, prev))
                         /\ ValueIn(metric, prev).n # 0
                    /\ metric \in DOMAIN GrowthRates
                         => GrowthRecordAgrees(GrowthRates[metric], metric, prev, cur)
       /\ (financial_data = SampleData) =>
            GrowthRates["revenue"].growth_rate.n = 25 * GrowthRates["revenue"].growth_rate.d

C10_Witness ==
  /\ op = "growth"
  /\ Len(financial_data.income_statement) = 3
  /\ "revenue" \in DOMAIN ret
  /\ ret["revenue"].period = <<2, 3>>

----------------------------------------------------------------------------
(* Properties of the Benchmarker *)

Benchmarked == op = "benchmark" /\ ~raised
LeverageNames == {"debt_to_equity", "debt_to_assets"}

\* the rating of one reported row, read from its own three fields
RatedAsStated(row) ==
  LET above == RLess(row.industry_value, row.company_value)
      below == RLess(row.company_value, row.industry_value)
  IN row.performance =
       IF row.name \in LeverageNames
         THEN IF below THEN "Above" ELSE "Below"
         ELSE IF above THEN "Above" ELSE "Below"

\* C11: benchmark_ratios reports exactly the company ratios whose name is
\* also in the industry mapping, each with both values; a leverage ratio is
\* Above iff company < industry, every other ratio Above iff company >
\* industry, and Below otherwise, equal values included.
C11_BenchmarkPerformance ==
  Benchmarked =>
    LET company_ratios == arg[1]
        industry_benchmarks == arg[2]
        both == SelectSeq(company_ratios, LAMBDA e : e.name \in DOMAIN industry_benchmarks)
    IN /\ Len(ret) = Len(both)
       /\ benchmarking = ret
       /\ \A i \in 1..Len(ret) :
            /\ ret[i].name = both[i].name
            /\ ret[i].company_value = both[i].val
            /\ ret[i].industry_value = industry_benchmarks[both[i].name]
            /\ RatedAsStated(ret[i])

\* current_ratio 2.0 against 1.5 is Above, debt_to_equity 2.5 against 1.0 is
\* Below, and peg_ratio is left out because the industry has no such name
C11_Witness ==
  /\ Benchmarked
  /\ arg[1] = <<Entry("current_ratio", 2, Pct(200)), Entry("debt_to_equity", 2, Pct(250))>>
  /\ DOMAIN arg[2] = {"current_ratio", "debt_to_equity"}
  /\ Len(ret) = 2
  /\ ret[1].performance = "Above"
  /\ ret[2].performance = "Below"

----------------------------------------------------------------------------
(* Properties of the Risk Classifier *)

Classified(i) == "category" \in DOMAIN risks[i]
REq(a, b) == a.n * b.d = b.n * a.d

\* the documented order of the categories
CategoryOrder == <<"market_risks", "operational_risks", "financial_risks", "regulatory_risks">>

\* the number of matches of the patterns of the k-th category in a text
MatchesOf(k, text) ==
  SumSeq([j \in 1..Len(RiskPatterns[k].patterns) |->
            findall_count(RiskPatterns[k].patterns[j], text_lower(text))])

\* C12: the category assigned to a text is the one with the greatest score
\* (half the number of its pattern matches); of several categories with the
\* greatest score it is the first in the order market, operational,
\* financial, regulatory.
C12_HighestScoreFirstOnTie ==
  \A i \in 1..Len(risks) :
    Classified(i) =>
      \E c \in 1..Len(CategoryOrder) :
        /\ risks[i]["category"] = CategoryOrder[c]
        /\ RiskPatterns[c].category = CategoryOrder[c]
        /\ \A k \in 1..Len(CategoryOrder) :
             /\ MatchesOf(k, risks[i]["text"]) <= MatchesOf(c, risks[i]["text"])
             /\ k < c => MatchesOf(k, risks[i]["text"]) < MatchesOf(c, risks[i]["text"])

\* one operational and one regulatory match, none of the market patterns:
\* the two share the highest score and the earlier one is assigned
C12_Witness ==
  /\ op = "classify"
  /\ Len(risks) = 1
  /\ risks[1]["text"] = <<"antitrust", "cybersecurity">>
  /\ MatchesOf(2, risks[1]["text"]) = 1
  /\ MatchesOf(4, risks[1]["text"]) = 1
  /\ risks[1]["category"] = "operational_risks"

\* C13: a risk factor whose text matches no pattern of any category (all
\* four scores are 0) has the category "general".
C13_NoMatchIsGeneral ==
  \A i \in 1..Len(risks) :
    (Classified(i) /\ \A k \in 1..Len(CategoryOrder) : MatchesOf(k, risks[i]["text"]) = 0)
      => risks[i]["category"] = "general"

\* C14: no step changes the pattern tables, and a step leaves every risk
\* factor that has a category with the same category and the same
\* category_confidence, whatever was called before: classifying a text
\* again gives what the first classification gave.
C14_ClassificationRepeatable ==
  [][/\ risk_patterns' = risk_patterns
     /\ severity_indicators' = severity_indicators
     /\ \A i \in 1..Len(risks) :
          Classified(i) =>
            /\ risks'[i]["category"] = risks[i]["category"]
            /\ risks'[i]["category_confidence"] = risks[i]["category_confidence"]]_vars

\* classify_risks was called, then assess_risk_severity (its category scores
\* name a category), then generate_risk_summary, then classify_risks again, on
\* a list that holds the same text twice with another text in between
C14_Witness ==
  /\ op = "classify"
  /\ risk_summary # <<>>
  /\ Len(risk_scores.category_scores) = 2
  /\ Len(risks) = 3
  /\ risks[1]["text"] = <<"antitrust">>
  /\ risks[2]["text"] # <<"antitrust">>
  /\ risks[3]["text"] = <<"antitrust">>
  /\ risks[1]["category"] = "regulatory_risks"
  /\ risks[3]["category"] = "regulatory_risks"
  /\ risks[3]["category_confidence"] = Frac(2, 10)

----------------------------------------------------------------------------
(* Properties of the Severity Scorer *)

Assessed(i) == "overall_risk_score" \in DOMAIN risks[i]

\* one of the patterns of the named bucket is found in the text
BucketMatches(name, text) ==
  \E i \in 1..Len(SeverityIndicators) :
    /\ SeverityIndicators[i].severity = name
    /\ \E j \in 1..Len(SeverityIndicators[i].patterns) :
         re_search(SeverityIndicators[i].patterns[j], text_lower(text))

\* C15: the severity is high when a high pattern matches the text, else
\* medium when a medium pattern matches, else low when a low pattern matches,
\* else medium; a text matching a high and a low pattern is high.
C15_SeverityPriority ==
  \A i \in 1..Len(risks) :
    Assessed(i) =>
      risks[i]["severity"] =
        IF BucketMatches("high", risks[i]["text"]) THEN "high"
        ELSE IF BucketMatches("medium", risks[i]["text"]) THEN "medium"
        ELSE IF BucketMatches("low", risks[i]["text"]) THEN "low"
        ELSE "medium"

\* "minor impact" is a low pattern and "materially adverse" a high one
C15_Witness ==
  /\ op = "assess"
  /\ Len(risks) = 1
  /\ risks[1]["text"] = <<"minor impact", "materially adverse">>
  /\ BucketMatches("low", risks[1]["text"])
  /\ BucketMatches("high", risks[1]["text"])
  /\ risks[1]["severity"] = "high"

\* a word of the given list occurs in the lower-cased text
Mentions(text, words) == words \cap text_lower(text).parts # {}
Raising == {"material", "significant", "substantial"}
Lowering == {"minor", "routine", "standard"}

\* ten times base x m for a severity and a text
TenfoldImpact(severity, text) ==
  LET base == CASE severity = "low" -> 1 [] severity = "medium" -> 3 [] severity = "high" -> 5
      m10 == IF Mentions(text, Raising) THEN 15
             ELSE IF Mentions(text, Lowering) THEN 7
             ELSE 10
  IN base * m10

\* C16: impact_score = min(base x m, 5.0) with base 1, 3, 5 for low, medium,
\* high and m = 1.5 for a raising keyword, else 0.7 for a lowering keyword,
\* else 1; so it is in (0, 5] and one of 0.7, 1.0, 1.5, 2.1, 3.0, 3.5, 4.5, 5.0.
C16_ImpactScore ==
  \A i \in 1..Len(risks) :
    Assessed(i) =>
      LET tenfold == TenfoldImpact(risks[i]["severity"], risks[i]["text"])
          impact == risks[i]["impact_score"]
      IN /\ impact.n * 10 = impact.d * (IF tenfold < 50 THEN tenfold ELSE 50)
         /\ impact.n > 0
         /\ impact.n <= 5 * impact.d
         /\ \E v \in {7, 10, 15, 21, 30, 35, 45, 50} : impact.n * 10 = impact.d * v

\* a low-severity text with a keyword of both groups: the raising one wins
C16_Witness ==
  /\ op = "assess"
  /\ Len(risks) = 1
  /\ risks[1]["text"] = <<"minor impact", "significant">>
  /\ risks[1]["severity"] = "low"
  /\ risks[1]["impact_score"] = Frac(15, 10)

\* the words of a phrase
WordsOf(phrase) ==
  CASE phrase = "liquidity risk" -> {"liquidity", "risk"}
    [] phrase = "materially adverse" -> {"materially", "adverse"}
    [] phrase = "critical dependence" -> {"critical", "dependence"}
    [] phrase = "may impact" -> {"may", "impact"}
    [] phrase = "minor impact" -> {"minor", "impact"}
    [] phrase = "expected fluctuation" -> {"expected", "fluctuation"}
    [] phrase = "price competition, talent competition, product competition, global competition" ->
         {"price", "talent", "product", "global", "competition"}
    [] phrase = "\n" -> {}
    [] OTHER -> {lower(phrase)}
WordsIn(text) == UNION {WordsOf(text[i]) : i \in 1..Len(text)}

HighCues == {"will", "expected", "likely", "probable"}
MediumCues == {"may", "could", "possible", "potential"}
LowCues == {"unlikely", "remote", "minimal"}

\* C17: likelihood is 0.8 when a high-likelihood cue word is in the text,
\* else 0.5 for a medium-likelihood cue word, else 0.2 for a low-likelihood
\* cue word, else 0.5; a text whose only cue word is unlikely, remote or
\* minimal gets 0.2.
C17_LikelihoodByCueWord ==
  \A i \in 1..Len(risks) :
    Assessed(i) =>
      LET words == WordsIn(risks[i]["text"])
      IN risks[i]["likelihood"] =
           IF words \cap HighCues # {} THEN Frac(8, 10)
           ELSE IF words \cap MediumCues # {} THEN Frac(5, 10)
           ELSE IF words \cap LowCues # {} THEN Frac(2, 10)
           ELSE Frac(5, 10)

\* a score as a whole number of hundredths
Hundredths(score) ==
  [count |-> (score.n * 100) \div score.d, exact |-> (score.n * 100) % score.d = 0]

\* C18: after assess_risk_severity on a non-empty list every risk has
\* overall_risk_score = impact_score x likelihood, and the assessment's
\* overall_risk_score is the sum of these scores divided by their number.
C18_ProductAndMean ==
  (op = "assess" /\ risks # <<>>) =>
    /\ \A i \in 1..Len(risks) :
         LET o == risks[i]["overall_risk_score"]
             a == risks[i]["impact_score"]
             l == risks[i]["likelihood"]
         IN o.n * a.d * l.d = a.n * l.n * o.d
    /\ IsNum(ret.overall_risk_score)
    /\ \A i \in 1..Len(risks) : Hundredths(risks[i]["overall_risk_score"]).exact
    /\ ret.overall_risk_score.n * 100 * Len(risks)
         = SumSeq([i \in 1..Len(risks) |-> Hundredths(risks[i]["overall_risk_score"]).count])
             * ret.overall_risk_score.d

\* scores 4.0 and 1.5: the mean is 2.75
C18_Witness ==
  /\ op = "assess"
  /\ Len(risks) = 2
  /\ risks[1]["overall_risk_score"] = Frac(4, 1)
  /\ risks[2]["overall_risk_score"] = Frac(3, 2)
  /\ ret.overall_risk_score = Frac(11, 4)

\* C19: when no risks exist (assess_risk_severity on an empty list) the
\* assessment's overall_risk_score is 0, and the summary built from it
\* reports the overall risk score 0 and the level Low.
C19_NoRisksScoreZero ==
  (risks = <<>> /\ risk_scores # <<>>) =>
    /\ risk_scores.overall_risk_score = Frac(0, 1)
    /\ risk_summary # <<>> =>
         /\ risk_summary.executive_summary.overall_risk_score = Frac(0, 1)
         /\ risk_summary.executive_summary.overall_risk_level = "Low"

TopScore(i) == risks[i]["overall_risk_score"]

\* C20: top_risks holds min(5, number of risks) different risks of the
\* list, in descending order of overall_risk_score, risks of equal score in
\* list order, and no risk left out has a higher score than one in it.
C20_TopRisks ==
  (op = "assess") =>
    LET top == ret.top_risks
    IN /\ Len(top) = (IF Len(risks) < 5 THEN Len(risks) ELSE 5)
       /\ \A k \in 1..Len(top) : top[k] \in 1..Len(risks)
       /\ \A k, m \in 1..Len(top) :
            k < m => /\ top[k] # top[m]
                     /\ ~RLess(TopScore(top[k]), TopScore(top[m]))
                     /\ REq(TopScore(top[k]), TopScore(top[m])) => top[k] < top[m]
       /\ \A i \in 1..Len(risks) :
            (\A k \in 1..Len(top) : top[k] # i) =>
              \A k \in 1..Len(top) : ~RLess(TopScore(top[k]), TopScore(i))

\* six risks with the scores 1.5, 4.0, 1.5, 4.0, 1.5, 1.5: the two of 4.0
\* come first, then the first three of 1.5, and the sixth risk is left out
C20_Witness ==
  /\ op = "assess"
  /\ Len(risks) = 6
  /\ \A i \in {2, 4} : TopScore(i) = Frac(4, 1)
  /\ \A i \in {1, 3, 5, 6} : TopScore(i) = Frac(3, 2)
  /\ ret.top_risks = <<2, 4, 1, 3, 5>>

----------------------------------------------------------------------------
(* Properties of the Summarizer *)

Summarized == risk_summary # <<>>

\* "score >= a/b" and "score < a/b" as the claims read them: of a nan score
\* neither is true
ScoreAtLeast(score, a, b) == IsNum(score) /\ score.n * b >= a * score.d
ScoreBelow(score, a, b) == IsNum(score) /\ score.n * b < a * score.d

\* C22: the summary's overall_risk_level is High iff the assessment's
\* overall_risk_score >= 4.0, Medium iff 2.5 <= score < 4.0 and Low iff
\* score < 2.5, and the first recommendation names the same level.
C22_LevelAndRecommendation ==
  Summarized =>
    LET score == risk_scores.overall_risk_score
        level == risk_summary.executive_summary.overall_risk_level
    IN /\ level = "High" <=> ScoreAtLeast(score, 4, 1)
       /\ level = "Medium" <=> (ScoreAtLeast(score, 5, 2) /\ ScoreBelow(score, 4, 1))
       /\ level = "Low" <=> ScoreBelow(score, 5, 2)
       /\ risk_summary.recommendations[1] =
            (CASE level = "High" -> "HIGH RISK"
               [] level = "Medium" -> "MEDIUM RISK"
               [] level = "Low" -> "LOW RISK")

----------------------------------------------------------------------------
(* Properties of the Health Scorer: the value a sub-check reads *)

\* the entries of a scored ratio, in the key order of its family's mapping
EntriesOf(name) ==
  SelectSeq(ScoredRatios[ScoredFamily[name]], LAMBDA e : e.name = name)
Available(name) == \E i \in 1..Len(EntriesOf(name)) : IsNum(EntriesOf(name)[i].val)

\* C24: each sub-check reads the last entry, in key order, of its ratio (an
\* issue reports that entry's value), and a ratio counts as absent, adding
\* nothing to max_score, only when no period has a value for it.
C24_LatestAvailableValue ==
  HealthChecked =>
    LET h == Assessment
    IN /\ \A x \in ScoredNames : \A i \in 1..Len(h.issues) :
            h.issues[i].issue = IssueOf[x] =>
              h.issues[i].value = EntriesOf(x)[Len(EntriesOf(x))].val
       /\ h.max_score = Num(25 * Cardinality({x \in ScoredNames : Available(x)}))

----------------------------------------------------------------------------
(* Properties of the Ratio Calculator: the join of periods across statements *)

JoinedNames == {r.name : r \in {t \in RatioTable : t.joined}}
IncomeOnlyNames == {"gross_margin", "operating_margin", "net_margin", "interest_coverage"}
FamilyOf(name) == (CHOOSE r \in RatioTable : r.name = name).family
IncomeOnly(p) ==
  HasPeriod(financial_data.income_statement, p) /\ ~HasPeriod(financial_data.balance_sheet, p)
BalanceOnly(p) ==
  HasPeriod(financial_data.balance_sheet, p) /\ ~HasPeriod(financial_data.income_statement, p)

\* C25: periods are joined by identical label: for an income-statement period
\* with no balance-sheet period of the same label no key is emitted for the
\* seven joined ratios while the three margins and interest_coverage of that
\* period are emitted, and a period present only in the balance sheet yields
\* liquidity ratios only.
C25_JoinByLabel ==
  op = "ratios" =>
    \A p \in AllPeriods :
      /\ IncomeOnly(p) =>
           /\ \A x \in JoinedNames : ~HasKey(ret, FamilyOf(x), x, p)
           /\ \A x \in IncomeOnlyNames : HasKey(ret, FamilyOf(x), x, p)
      /\ BalanceOnly(p) =>
           \A r \in RatioTable : HasKey(ret, r.family, r.name, p) => r.family = "liquidity"

----------------------------------------------------------------------------
(* Properties of the risk records *)

\* C26: classify_risks and assess_risk_severity leave every risk record
\* passed to them unchanged: after either call the records of the caller's
\* list have the same fields and values as before it.
C26_RecordsUnchanged ==
  [][op' \in {"classify", "assess"} => risks' = risks]_vars

----------------------------------------------------------------------------
(* Properties of the category aggregates *)

AllClassified == \A i \in 1..Len(risks) : Classified(i)
InCategory(c) == SelectSeq(Positions(risks), LAMBDA i : risks[i]["category"] = c)
CountsOf(distribution) == [k \in 1..Len(distribution) |-> distribution[k].count]

\* C27: after classify_risks and then assess_risk_severity on the same list
\* category_scores has one entry for exactly each category assigned to some
\* risk; in every entry risk_count is the number of risks of the category,
\* average_score and max_score are the mean and the maximum of their
\* overall_risk_score, and the counts of severity_distribution sum to
\* risk_count; the risk_count values, and the counts of risk_distribution,
\* sum to the number of risks.
C27_CategoryAggregates ==
  (op = "assess" /\ AllClassified) =>
    LET cs == ret.category_scores
    IN /\ {cs[k].category : k \in 1..Len(cs)} = {risks[i]["category"] : i \in 1..Len(risks)}
       /\ \A k, l \in 1..Len(cs) : cs[k].category = cs[l].category => k = l
       /\ \A k \in 1..Len(cs) :
            LET at == InCategory(cs[k].category)
                score == [j \in 1..Len(at) |-> risks[at[j]]["overall_risk_score"]]
            IN /\ cs[k].risk_count = Len(at)
               /\ \A j \in 1..Len(at) : Hundredths(score[j]).exact
               /\ cs[k].average_score.n * 100 * Len(at)
                    = SumSeq([j \in 1..Len(at) |-> Hundredths(score[j]).count])
                        * cs[k].average_score.d
               /\ \E j \in 1..Len(at) : cs[k].max_score = score[j]
               /\ \A j \in 1..Len(at) : ~RLess(cs[k].max_score, score[j])
               /\ ~RLess(cs[k].max_score, cs[k].average_score)
               /\ SumSeq(CountsOf(cs[k].severity_distribution)) = cs[k].risk_count
       /\ SumSeq([k \in 1..Len(cs) |-> cs[k].risk_count]) = Len(risks)
       /\ SumSeq(CountsOf(ret.risk_distribution)) = Len(risks)

\* two regulatory risks scoring 1.5 and 2.5, in this order, and a market risk
C27_Witness ==
  /\ op = "assess" /\ AllClassified
  /\ Len(risks) = 3
  /\ risks[1]["category"] = "regulatory_risks" /\ risks[1]["overall_risk_score"] = Frac(3, 2)
  /\ risks[2]["category"] = "regulatory_risks" /\ risks[2]["overall_risk_score"] = Frac(5, 2)
  /\ risks[3]["category"] = "market_risks"
  /\ ret.category_scores[1].risk_count = 2
  /\ ret.category_scores[1].average_score = Frac(2, 1)
  /\ ret.category_scores[1].max_score = Frac(5, 2)

----------------------------------------------------------------------------
(* Properties of the score ceiling *)

ScoreOf(i) == risks[i]["overall_risk_score"]
ScoresFour(i) ==
  /\ ScoreOf(i) = Frac(4, 1)
  /\ risks[i]["impact_score"] = Frac(5, 1)
  /\ risks[i]["likelihood"] = Frac(8, 10)

\* the risks aggregated under an entry of category_scores: all of them under
\* general (the assessment of unclassified risks), else those of the category
Concerned(category) ==
  IF category = "general" THEN Positions(risks) ELSE InCategory(category)

\* C28: every per-risk overall_risk_score is at most 4.0, and reaches 4.0
\* only with impact_score 5.0 and likelihood 0.8; the overall level High, the
\* HIGH RISK recommendation and a category's immediate-action strategy occur
\* only when every risk concerned scores exactly 4.0.
C28_ScoreCeiling ==
  /\ op = "assess" =>
       \A i \in 1..Len(risks) :
         /\ ~RLess(Frac(4, 1), ScoreOf(i))
         /\ ScoreOf(i) = Frac(4, 1) => ScoresFour(i)
  /\ Summarized =>
       /\ risk_summary.executive_summary.overall_risk_level = "High"
            => \A i \in 1..Len(risks) : ScoresFour(i)
       /\ risk_summary.recommendations[1] = "HIGH RISK"
            => \A i \in 1..Len(risks) : ScoresFour(i)
       /\ \A k \in 1..Len(risk_summary.mitigation_strategies) :
            LET entry == risk_summary.mitigation_strategies[k]
                at == Concerned(entry.category)
            IN entry.strategies[1] = "IMMEDIATE ACTION REQUIRED"
                 => \A j \in 1..Len(at) : ScoresFour(at[j])

\* a list whose market risks all score 4.0 while a regulatory risk scores
\* 1.5: immediate action for the market risks, no High level
C28_Witness ==
  /\ Summarized /\ AllClassified
  /\ \E i \in 1..Len(risks) : ScoreOf(i) = Frac(3, 2)
  /\ \E k \in 1..Len(risk_summary.mitigation_strategies) :
       /\ risk_summary.mitigation_strategies[k].category = "market_risks"
       /\ risk_summary.mitigation_strategies[k].strategies[1] = "IMMEDIATE ACTION REQUIRED"
  /\ risk_summary.executive_summary.overall_risk_level # "High"

----------------------------------------------------------------------------
(* Properties of the classification confidence *)

\* the number of matches of the patterns of a category in a text; a
\* category without patterns has none
MatchesOfCategory(category, text) ==
  SumSeq([k \in 1..Len(RiskPatterns) |->
            IF RiskPatterns[k].category = category THEN MatchesOf(k, text) ELSE 0])

\* C29: category_confidence of a classified risk is min(0.2 x the number of
\* matches of the assigned category's patterns in the text, 1.0): it lies in
\* [0, 1], is 1.0 from 5 matches on and is 0 exactly when the assigned
\* category has no match.
C29_CategoryConfidence ==
  \A i \in 1..Len(risks) :
    Classified(i) =>
      LET matches == MatchesOfCategory(risks[i]["category"], risks[i]["text"])
          confidence == risks[i]["category_confidence"]
      IN /\ confidence.n * 10 = (IF matches >= 5 THEN 10 ELSE 2 * matches) * confidence.d
         /\ ~RLess(confidence, Frac(0, 1)) /\ ~RLess(Frac(1, 1), confidence)
         /\ matches >= 5 <=> confidence = Frac(1, 1)
         /\ matches = 0 <=> confidence = Frac(0, 1)

\* a text with exactly five matches of the market patterns
C29_Witness ==
  \E i \in 1..Len(risks) :
    /\ Classified(i)
    /\ risks[i]["category"] = "market_risks"
    /\ MatchesOfCategory("market_risks", risks[i]["text"]) = 5
    /\ risks[i]["category_confidence"] = Frac(1, 1)

----------------------------------------------------------------------------
(* Properties of the stages called out of order *)

NoneClassified == \A i \in 1..Len(risks) : ~Classified(i)

\* C30: assess_risk_severity on risk factors that were never classified
\* returns normally; all risks are aggregated under the single category
\* general with risk_count equal to the number of risks, and that entry's
\* severity_distribution is empty, so its counts do not sum to risk_count.
C30_UnclassifiedAggregates ==
  (op = "assess" /\ risks # <<>> /\ NoneClassified) =>
    LET cs == ret.category_scores
    IN /\ Len(cs) = 1
       /\ cs[1].category = "general"
       /\ cs[1].risk_count = Len(risks)
       /\ cs[1].severity_distribution = <<>>
       /\ SumSeq(CountsOf(cs[1].severity_distribution)) # cs[1].risk_count
       /\ \A i \in 1..Len(risks) : Assessed(i)
       /\ SumSeq(CountsOf(ret.risk_distribution)) = Len(risks)

\* three unclassified risks have been assessed
C30_Witness ==
  /\ op = "assess" /\ NoneClassified
  /\ Len(risks) = 3
  /\ ret.category_scores[1].category = "general"
  /\ ret.category_scores[1].risk_count = 3
  /\ ret.category_scores[1].severity_distribution = <<>>

----------------------------------------------------------------------------
(* Properties of the extraction *)

Extracted == op = "extract"

\* the section stage: the items, longer than 50 characters when stripped, of
\* the sections that the three patterns find
SectionItems ==
  LET occ == AllOccurrences(filing_text)
      matches == Concat([p \in 1..Len(risk_section_patterns) |->
                           re_findall(occ, risk_section_patterns[p].parts,
                                      LookaheadStarts(occ, risk_section_patterns[p].lookahead),
                                      0)], 1)
      risk_items == Concat([m \in 1..Len(matches) |->
                              re_split(filing_text, matches[m].from, matches[m].to, 1,
                                       << <<>> >>)], 1)
  IN SelectSeq(risk_items, LAMBDA item : StrippedLength(item) > 50)

\* the sentences of the whole text that hold one of the ten risk keywords
KeywordSentences ==
  SelectSeq(SplitSentences(filing_text, 1, << <<>> >>),
            LAMBDA sentence :
              \E k \in 1..Len(sentence) :
                KeywordsIn(sentence[k])
                  \cap {risk_keywords[w] : w \in 1..Len(risk_keywords)} # {})

\* C21: if the section stage yields at least one item the result is exactly
\* those items, each longer than 50 characters when stripped and with
\* extraction_confidence 0.8; the sentence search over the whole text runs
\* if and only if the section stage yields no item, and the result is then
\* exactly the sentences holding a risk keyword, each with confidence 0.3;
\* a result never mixes the two confidences.
C21_TwoStageExtraction ==
  Extracted =>
    /\ SectionItems # <<>> =>
         /\ Len(ret) = Len(SectionItems)
         /\ \A k \in 1..Len(ret) :
              /\ ret[k].text = _clean_risk_text(SectionItems[k])
              /\ StrippedLength(SectionItems[k]) > 50
              /\ ret[k].source_section = "risk_factors"
              /\ ret[k].extraction_confidence = Frac(8, 10)
    /\ SectionItems = <<>> =>
         /\ Len(ret) = Len(KeywordSentences)
         /\ \A k \in 1..Len(ret) :
              /\ ret[k].text = [pieces |-> KeywordSentences[k], joined_by |-> "\n"]
              /\ ret[k].source_section = "general_text"
              /\ ret[k].extraction_confidence = Frac(3, 10)
    /\ \A k, l \in 1..Len(ret) : ret[k].extraction_confidence = ret[l].extraction_confidence
    /\ self_risk_factors = ret

\* a filing whose section holds a long item and, outside the section, a
\* sentence with a risk keyword that is not returned
C21_Witness ==
  /\ Extracted
  /\ Len(ret) = 1
  /\ ret[1].extraction_confidence = Frac(8, 10)
  /\ Len(KeywordSentences) > 1

----------------------------------------------------------------------------
(* Properties of an instance shared by two callers *)

\* the values the calls of a caller return when they run alone on its input
AloneAnalysis(input) == analyze_financial_statements(input)
AloneClassified(input) == classify_risks(RiskPatterns, input)
AloneAssessed(input) ==
  assess_risk_severity(SeverityIndicators, AloneClassified(input).risk_factors)

\* C23: when the calls of two callers are interleaved on one instance, each
\* call returns exactly the value it returns when run alone on its input.
C23_InterleavingSafe ==
  \A t \in DOMAIN calls :
    /\ "analyze" \in calls[t].returned
         => calls[t].analysis = AloneAnalysis(calls[t].input)
    /\ "classify" \in calls[t].returned
         => calls[t].classified = AloneClassified(calls[t].input).risk_categories
    /\ "assess" \in calls[t].returned
         => calls[t].assessment = AloneAssessed(calls[t].input).risk_assessment
    /\ "summary" \in calls[t].returned
         => calls[t].summary
              = generate_risk_summary(AloneAssessed(calls[t].input).risk_assessment)

====
